---- MODULE Spec2Model ----
(***************************************************************************)
(* Model of the DEX module of iroha (src/iroha/src/dex.rs) and of the      *)
(* transaction pipeline that drives it (src/iroha/src/tx.rs).              *)
(*                                                                         *)
(* Quantities are Rust u32 / u128 values.  They are represented as wide    *)
(* naturals: little-endian sequences of 15-bit limbs without trailing      *)
(* zero limbs (zero is the empty sequence), so that 32-bit wrap-around and *)
(* 128-bit intermediate products are computed exactly.                     *)
(***************************************************************************)
EXTENDS Integers, Sequences, FiniteSets, TLC

VARIABLES wsv, pre, last, steps, overflow_checks

vars == <<wsv, pre, last, steps, overflow_checks>>

----------------------------------------------------------------------------
(* Sequencing.  A Rust `let x = e;` computes e once, before what follows.  *)
(* Let(e, In) is In applied to the value of e; Try is `let x = e?;`, which *)
(* returns a failure of e at once.                                         *)

Let(e, In(_)) == [x \in Any |-> In(x)][e]

Let2(e1, e2, In(_, _)) == [x \in Any |-> In(x[1], x[2])][<<e1, e2>>]

Try(r, Then(_)) == [x \in Any |-> IF x.tag # "Ok" THEN x ELSE Then(x)][r]

----------------------------------------------------------------------------
(* Wide naturals *)

LimbBase == 2^15

Zero == <<>>

RECURSIVE N(_)
N(n) == IF n = 0 THEN <<>> ELSE <<n % LimbBase>> \o N(n \div LimbBase)

One == N(1)

Limb(s, i) == IF i <= Len(s) THEN s[i] ELSE 0

RECURSIVE Norm(_)
Norm(s) == IF s = <<>> THEN <<>>
           ELSE IF s[Len(s)] = 0 THEN Norm(SubSeq(s, 1, Len(s) - 1))
           ELSE s

RECURSIVE AddC(_, _, _, _)
AddC(a, b, i, c) ==
    IF i > Len(a) /\ i > Len(b)
    THEN (IF c = 0 THEN <<>> ELSE <<c>>)
    ELSE <<(Limb(a, i) + Limb(b, i) + c) % LimbBase>>
             \o AddC(a, b, i + 1, (Limb(a, i) + Limb(b, i) + c) \div LimbBase)

Add(a, b) ==
    Let2(a, b, LAMBDA x, y : IF y = <<>> THEN x ELSE IF x = <<>> THEN y
                             ELSE AddC(x, y, 1, 0))

RECURSIVE LessFrom(_, _, _)
LessFrom(a, b, i) ==
    IF i = 0 THEN FALSE
    ELSE IF a[i] # b[i] THEN a[i] < b[i]
    ELSE LessFrom(a, b, i - 1)

Less(a, b) ==
    Let2(a, b, LAMBDA x, y : IF Len(x) # Len(y) THEN Len(x) < Len(y)
                             ELSE LessFrom(x, y, Len(x)))

Leq(a, b) == ~Less(b, a)

RECURSIVE SubB(_, _, _, _)
SubB(a, b, i, w) ==
    IF i > Len(a) THEN <<>>
    ELSE IF a[i] - Limb(b, i) - w < 0
    THEN <<a[i] - Limb(b, i) - w + LimbBase>> \o SubB(a, b, i + 1, 1)
    ELSE <<a[i] - Limb(b, i) - w>> \o SubB(a, b, i + 1, 0)

\* a - b for b <= a
Sub(a, b) == Let2(a, b, LAMBDA x, y : IF y = <<>> THEN x ELSE Norm(SubB(x, y, 1, 0)))

RECURSIVE MulSmallC(_, _, _, _)
MulSmallC(a, k, i, c) ==
    IF i > Len(a) THEN (IF c = 0 THEN <<>> ELSE <<c>>)
    ELSE <<(a[i] * k + c) % LimbBase>>
             \o MulSmallC(a, k, i + 1, (a[i] * k + c) \div LimbBase)

MulSmall(a, k) == Let2(a, k, LAMBDA x, y : IF y = 0 THEN <<>> ELSE MulSmallC(x, y, 1, 0))

ShiftLimb(a) == Let(a, LAMBDA x : IF x = <<>> THEN <<>> ELSE <<0>> \o x)

RECURSIVE MulFrom(_, _, _)
MulFrom(a, b, j) ==
    IF j > Len(b) THEN <<>>
    ELSE Add(MulSmall(a, b[j]), ShiftLimb(MulFrom(a, b, j + 1)))

Mul(a, b) ==
    Let2(a, b, LAMBDA x, y : IF x = <<>> \/ y = <<>> THEN <<>> ELSE MulFrom(x, y, 1))

\* the limb q of the quotient with q * v <= r < (q + 1) * v, for r < v * LimbBase
\* and a divisor v whose top limb is at least LimbBase / 2: the quotient of
\* the top limbs of r by the top limb of v overestimates q by at most 2
QuotientLimb(r, v) ==
    Let((Limb(r, Len(v) + 1) * LimbBase + Limb(r, Len(v))) \div v[Len(v)], LAMBDA top :
    Let(IF top < LimbBase THEN top ELSE LimbBase - 1, LAMBDA estimate :
    CHOOSE q \in {c \in {estimate - 2, estimate - 1, estimate} : c >= 0} :
        Leq(MulSmall(v, q), r) /\ Less(r, MulSmall(v, q + 1))))

\* long division of u by v from limb i of u down, with the remainder r of the
\* limbs above i and the limbs q of their quotient
RECURSIVE DivLimbs(_, _, _, _, _)
DivLimbs(u, v, i, r, q) ==
    IF i = 0 THEN Norm(q)
    ELSE Let(Norm(<<u[i]>> \o r), LAMBDA shifted :
         Let(QuotientLimb(shifted, v), LAMBDA limb :
         DivLimbs(u, v, i - 1, Sub(shifted, MulSmall(v, limb)), <<limb>> \o q)))

\* the quotient of a by d, d > 0: both are scaled so that the top limb of the
\* divisor is at least LimbBase / 2, which leaves the quotient unchanged
Div(a, d) ==
    Let2(a, d, LAMBDA x, y :
    IF Less(x, y) THEN Zero
    ELSE Let(LimbBase \div (y[Len(y)] + 1), LAMBDA scale :
         Let2(MulSmall(x, scale), MulSmall(y, scale), LAMBDA u, v :
         DivLimbs(u, v, Len(u) - Len(v) + 1,
                  SubSeq(u, Len(u) - Len(v) + 2, Len(u)), <<>>))))

Min(a, b) == Let2(a, b, LAMBDA x, y : IF Less(y, x) THEN y ELSE x)

\* u32::MAX
U32Max == <<LimbBase - 1, LimbBase - 1, 3>>

Fits32(x) == Leq(x, U32Max)

\* x mod 2^32
Wrap32(x) == Let(x, LAMBDA y : Norm(<<Limb(y, 1), Limb(y, 2), Limb(y, 3) % 4>>))

\* a - b mod 2^32, for a, b < 2^32
WrapSub32(a, b) ==
    Let2(a, b, LAMBDA x, y : IF Leq(y, x) THEN Sub(x, y)
                             ELSE Add(Sub(U32Max, Sub(y, x)), One))

\* the integer c with c * 2^shift <= sqrt(n) < (c + 1) * 2^shift, among the
\* sixteen that extend the prefix p of the root by four bits
IsqrtBits(n, p, shift) ==
    CHOOSE c \in {16 * p + d : d \in 0..15} :
        /\ Leq(Mul(N(c * 2^shift), N(c * 2^shift)), n)
        /\ Less(n, Mul(N((c + 1) * 2^shift), N((c + 1) * 2^shift)))

\* floor(sqrt(n)) for n < 2^32, four bits at a time from the top
\* (integer_sqrt crate)
integer_sqrt(n) ==
    Let(n, LAMBDA x :
    Let(IsqrtBits(x, 0, 12), LAMBDA p3 :
    Let(IsqrtBits(x, p3, 8), LAMBDA p2 :
    Let(IsqrtBits(x, p2, 4), LAMBDA p1 : N(IsqrtBits(x, p1, 0))))))

----------------------------------------------------------------------------
(* Results of fallible functions: Result<T, String>, or a panic of the     *)
(* thread (arithmetic overflow when the build has overflow checks on,      *)
(* division by zero, failed assert!).                                      *)

Ok(v)    == [tag |-> "Ok",    v |-> v,    e |-> ""]
Err(e)   == [tag |-> "Err",   v |-> Zero, e |-> e]
Panic(e) == [tag |-> "Panic", v |-> Zero, e |-> e]

\* a * b as the u32 multiplication of the build: panics on overflow with
\* overflow checks, wraps modulo 2^32 without
MulU32(a, b) ==
    Let(Mul(a, b),
        LAMBDA p : IF Fits32(p) THEN Ok(p)
                   ELSE IF overflow_checks THEN Panic("attempt to multiply with overflow")
                   ELSE Ok(Wrap32(p)))

AddU32(a, b) ==
    Let(Add(a, b),
        LAMBDA s : IF Fits32(s) THEN Ok(s)
                   ELSE IF overflow_checks THEN Panic("attempt to add with overflow")
                   ELSE Ok(Wrap32(s)))

SubU32(a, b) ==
    Let2(a, b, LAMBDA x, y :
        IF Leq(y, x) THEN Ok(Sub(x, y))
        ELSE IF overflow_checks THEN Panic("attempt to subtract with overflow")
        ELSE Ok(WrapSub32(x, y)))

DivU32(a, b) ==
    Let2(a, b, LAMBDA x, y :
        IF y = Zero THEN Panic("attempt to divide by zero") ELSE Ok(Div(x, y)))

----------------------------------------------------------------------------
(* Math kernel *)

MINIMUM_LIQUIDITY == N(1000)

MAX_BASIS_POINTS == 10000

xyk_pool_quote(amount_a, reserve_a, reserve_b) ==
    IF ~(amount_a # Zero) THEN Err("insufficient amount")
    ELSE IF ~(reserve_a # Zero /\ reserve_b # Zero) THEN Err("insufficient liquidity")
    ELSE Try(MulU32(amount_a, reserve_b), LAMBDA p : Ok(Div(p.v, reserve_a)))

\* the optimal amounts with amount_a_optimal quoted from the reserves in the
\* order of amount_b_optimal
optimal_deposit_amounts_quoted_one_way(reserve_a, reserve_b, amount_a_desired, amount_b_desired, amount_a_min, amount_b_min) ==
    IF reserve_a = Zero /\ reserve_b = Zero
    THEN Ok(<<amount_a_desired, amount_b_desired>>)
    ELSE
    Try(xyk_pool_quote(amount_a_desired, reserve_a, reserve_b), LAMBDA amount_b_optimal :
    IF Leq(amount_b_optimal.v, amount_b_desired)
    THEN IF ~Leq(amount_b_min, amount_b_optimal.v)
         THEN Err("insufficient b amount")
         ELSE Ok(<<amount_a_desired, amount_b_optimal.v>>)
    ELSE
    Try(xyk_pool_quote(amount_b_desired, reserve_a, reserve_b), LAMBDA amount_a_optimal :
    IF ~Leq(amount_a_optimal.v, amount_a_desired)
    THEN Panic("assertion failed: amount_a_optimal <= amount_a_desired")
    ELSE IF ~Leq(amount_a_min, amount_a_optimal.v)
    THEN Err("insufficient a amount")
    ELSE Ok(<<amount_a_optimal.v, amount_b_desired>>)))

xyk_pool_get_optimal_deposit_amounts(reserve_a, reserve_b, amount_a_desired, amount_b_desired, amount_a_min, amount_b_min) ==
    IF reserve_a = Zero /\ reserve_b = Zero
    THEN Ok(<<amount_a_desired, amount_b_desired>>)
    ELSE
    Try(xyk_pool_quote(amount_a_desired, reserve_a, reserve_b), LAMBDA amount_b_optimal :
    IF Leq(amount_b_optimal.v, amount_b_desired)
    THEN IF ~Leq(amount_b_min, amount_b_optimal.v)
         THEN Err("insufficient b amount")
         ELSE Ok(<<amount_a_desired, amount_b_optimal.v>>)
    ELSE
    Try(xyk_pool_quote(amount_b_desired, reserve_b, reserve_a), LAMBDA amount_a_optimal :
    IF ~Leq(amount_a_optimal.v, amount_a_desired)
    THEN Panic("assertion failed: amount_a_optimal <= amount_a_desired")
    ELSE IF ~Leq(amount_a_min, amount_a_optimal.v)
    THEN Err("insufficient a amount")
    ELSE Ok(<<amount_a_optimal.v, amount_b_desired>>)))

\* the output amount with no fee taken from the input
xyk_pool_get_amount_out_without_fee(amount_in, reserve_in, reserve_out) ==
    IF ~(amount_in # Zero) THEN Err("insufficient input amount")
    ELSE IF ~(reserve_in # Zero /\ reserve_out # Zero) THEN Err("insufficient liquidity")
    ELSE
    Let(Mul(amount_in, reserve_out), LAMBDA numerator :
    Let(Add(reserve_in, amount_in), LAMBDA denominator :
    Ok(Wrap32(Div(numerator, denominator)))))

xyk_pool_get_amount_out(amount_in, reserve_in, reserve_out) ==
    IF ~(amount_in # Zero) THEN Err("insufficient input amount")
    ELSE IF ~(reserve_in # Zero /\ reserve_out # Zero) THEN Err("insufficient liquidity")
    ELSE
    Let(MulSmall(amount_in, 997), LAMBDA amount_in_with_fee :
    Let(Mul(amount_in_with_fee, reserve_out), LAMBDA numerator :
    Let(Add(MulSmall(reserve_in, 1000), amount_in_with_fee), LAMBDA denominator :
    Ok(Wrap32(Div(numerator, denominator))))))

\* the input amount quoted also for an output of 0
xyk_pool_get_amount_in_of_any_output(amount_out, reserve_in, reserve_out) ==
    IF ~(reserve_in # Zero /\ reserve_out # Zero) THEN Err("insufficient liquidity")
    ELSE IF ~(reserve_out # amount_out) THEN Err("can't withdraw full reserve")
    ELSE IF Less(reserve_out, amount_out)
    THEN IF overflow_checks THEN Panic("attempt to subtract with overflow")
         ELSE Ok(One)
    ELSE
    Let(MulSmall(Mul(reserve_in, amount_out), 1000), LAMBDA numerator :
    Let(MulSmall(Sub(reserve_out, amount_out), 997), LAMBDA denominator :
    Ok(Wrap32(Add(Div(numerator, denominator), One)))))

xyk_pool_get_amount_in(amount_out, reserve_in, reserve_out) ==
    IF ~(amount_out # Zero) THEN Err("insufficient output amount")
    ELSE IF ~(reserve_in # Zero /\ reserve_out # Zero) THEN Err("insufficient liquidity")
    ELSE IF ~(reserve_out # amount_out) THEN Err("can't withdraw full reserve")
    ELSE IF Less(reserve_out, amount_out)
    THEN \* u128 subtraction underflow: panic with overflow checks, else the
         \* difference wraps modulo 2^128 and the quotient is 0
         IF overflow_checks THEN Panic("attempt to subtract with overflow")
         ELSE Ok(One)
    ELSE
    Let(MulSmall(Mul(reserve_in, amount_out), 1000), LAMBDA numerator :
    Let(MulSmall(Sub(reserve_out, amount_out), 997), LAMBDA denominator :
    Ok(Wrap32(Add(Div(numerator, denominator), One)))))

----------------------------------------------------------------------------
(* Identifiers.  Names are token sequences, so that the names derived by   *)
(* format! for pool tokens and storage accounts are built by               *)
(* concatenation.                                                          *)

None == <<>>
Some(x) == <<x>>

AssetDefinitionId(name, domain_name) == [name |-> name, domain_name |-> domain_name]
AccountId(name, domain_name) == [name |-> name, domain_name |-> domain_name]
AssetId(definition_id, account_id) ==
    [definition_id |-> definition_id, account_id |-> account_id]

DEXId(domain_name) == [domain_name |-> domain_name]

TokenPairId(dex_id, base_asset_id, target_asset_id) ==
    [dex_id |-> dex_id, base_asset_id |-> base_asset_id,
     target_asset_id |-> target_asset_id]

get_symbol(id) ==
    id.base_asset_id.name \o <<"-", id.base_asset_id.domain_name, "/">>
        \o id.target_asset_id.name \o <<"-", id.target_asset_id.domain_name>>

LiquiditySourceId(token_pair_id, liquidity_source_type) ==
    [token_pair_id |-> token_pair_id, liquidity_source_type |-> liquidity_source_type]

DEX(domain_name, owner_account_id, base_asset_id) ==
    [id |-> DEXId(domain_name), owner_account_id |-> owner_account_id,
     token_pairs |-> <<>>, base_asset_id |-> base_asset_id]

TokenPair(dex_id, base_asset, target_asset) ==
    [id |-> TokenPairId(dex_id, base_asset, target_asset), liquidity_sources |-> <<>>]

XYKPoolData(pool_token_asset_definition_id, storage_account_id) ==
    [pool_token_asset_definition_id |-> pool_token_asset_definition_id,
     storage_account_id |-> storage_account_id,
     fee_to |-> None,
     fee |-> 30,
     protocol_fee_part |-> 0,
     pool_token_total_supply |-> Zero,
     base_asset_reserve |-> Zero,
     target_asset_reserve |-> Zero,
     k_last |-> Zero]

new_xyk_pool(token_pair_id, pool_token_asset_definition_id, storage_account_id) ==
    [id   |-> LiquiditySourceId(token_pair_id, "XYKPool"),
     data |-> <<"XYKPool",
                XYKPoolData(pool_token_asset_definition_id, storage_account_id)>>]

xyk_pool_token_asset_name(token_pair_id) == <<"XYKPOOL", " ">> \o get_symbol(token_pair_id)

xyk_pool_storage_account_name(token_pair_id) ==
    <<"STORE", " ", "XYKPOOL", " ">> \o get_symbol(token_pair_id)

----------------------------------------------------------------------------
(* World state view.  wsv is a record:                                     *)
(*   domain_names       the registered domains                             *)
(*   accounts           the registered account ids                         *)
(*   asset_definitions  the registered asset definition ids                *)
(*   assets             AssetId -> quantity, for the assets accounts hold  *)
(*   permissions        account id -> set of permissions                   *)
(*   dex                domain name -> Option<DEX>                         *)
(* An operation on the world state yields Res(tag, e, w, v): the outcome,  *)
(* the error message, the world state it leaves and the value it returns.  *)

Res(tag, e, w, v) == [tag |-> tag, e |-> e, w |-> w, v |-> v]
ROk(w, v) == Res("Ok", "", w, v)
RErr(e, w) == Res("Err", e, w, Zero)
\* the failure r of a step, raised in world state w
RFail(r, w) == Res(r.tag, r.e, w, Zero)

\* `let x = r?;` for a step r without effect on the world state w
TryIn(r, w, Then(_)) == [x \in Any |-> IF x.tag # "Ok" THEN RFail(x, w) ELSE Then(x)][r]

Put(f, k, v) == IF k \in DOMAIN f THEN [f EXCEPT ![k] = v] ELSE (k :> v) @@ f

Drop(f, k) == IF DOMAIN f \ {k} = {} THEN <<>> ELSE [x \in DOMAIN f \ {k} |-> f[x]]

HasPermission(authority, permission, w) ==
    /\ authority \in w.accounts
    /\ \/ <<"Anything">> \in w.permissions[authority]
       \/ permission \in w.permissions[authority]

ManageDEX(domain_name) == <<"ManageDEX", domain_name>>
TransferAssetPermission(asset_definition_id) == <<"TransferAsset", asset_definition_id>>

CanManageDEX(authority, domain_name, w) ==
    IF HasPermission(authority, ManageDEX(domain_name), w) THEN ROk(w, Zero)
    ELSE RErr("Error: Permission not found.", w)

CanTransferAsset(authority, asset_definition_id, w) ==
    IF HasPermission(authority, TransferAssetPermission(asset_definition_id), w)
    THEN ROk(w, Zero)
    ELSE RErr("Error: Permission not found.", w)

get_dex(domain_name, w) ==
    IF domain_name \notin w.domain_names THEN RErr("domain not found", w)
    ELSE IF w.dex[domain_name] = None THEN RErr("dex not initialized for domain", w)
    ELSE ROk(w, w.dex[domain_name][1])

get_token_pair(token_pair_id, w) ==
    Try(get_dex(token_pair_id.dex_id.domain_name, w), LAMBDA dex :
    IF token_pair_id \notin DOMAIN dex.v.token_pairs
    THEN RErr("token pair not found", w)
    ELSE ROk(w, dex.v.token_pairs[token_pair_id]))

get_liquidity_source(liquidity_source_id, w) ==
    Try(get_token_pair(liquidity_source_id.token_pair_id, w), LAMBDA token_pair :
    IF liquidity_source_id \notin DOMAIN token_pair.v.liquidity_sources
    THEN RErr("liquidity source not found", w)
    ELSE ROk(w, token_pair.v.liquidity_sources[liquidity_source_id]))

expect_xyk_pool_data(liquidity_source, w) ==
    IF liquidity_source.data[1] = "XYKPool" THEN ROk(w, liquidity_source.data[2])
    ELSE RErr("wrong liquidity source data", w)

\* get_liquidity_source followed by expect_xyk_pool_data
get_xyk_pool_data(liquidity_source_id, w) ==
    Try(get_liquidity_source(liquidity_source_id, w), LAMBDA liquidity_source :
    expect_xyk_pool_data(liquidity_source.v, w))

\* mem::replace(expect_xyk_pool_data_mut(get_liquidity_source_mut(id)?)?, data)
replace_xyk_pool_data(liquidity_source_id, data, w) ==
    Try(get_xyk_pool_data(liquidity_source_id, w), LAMBDA found :
    ROk([w EXCEPT !.dex[liquidity_source_id.token_pair_id.dex_id.domain_name][1]
                      .token_pairs[liquidity_source_id.token_pair_id]
                      .liquidity_sources[liquidity_source_id].data
                          = <<"XYKPool", data>>], Zero))

get_asset_quantity(account_id, asset_definition_id, w) ==
    IF account_id \notin w.accounts THEN RErr("account not found", w)
    ELSE IF AssetId(asset_definition_id, account_id) \notin DOMAIN w.assets
    THEN RErr("asset not found", w)
    ELSE ROk(w, w.assets[AssetId(asset_definition_id, account_id)])

----------------------------------------------------------------------------
(* Ledger primitives *)

transfer_from_unchecked(asset_definition_id, from, to, value, w) ==
    IF from \notin w.accounts THEN RErr("Failed to find accounts.", w)
    ELSE IF AssetId(asset_definition_id, from) \notin DOMAIN w.assets
    THEN RErr("Asset's component was not found.", w)
    ELSE IF Less(w.assets[AssetId(asset_definition_id, from)], value)
    THEN RErr("Not enough assets", w)
    ELSE
    Let([w EXCEPT !.assets[AssetId(asset_definition_id, from)] = Sub(@, value)], LAMBDA w1 :
    IF to \notin w1.accounts
    THEN RErr("Failed to find destination account.", w1)
    ELSE IF AssetId(asset_definition_id, to) \in DOMAIN w1.assets
    THEN TryIn(AddU32(w1.assets[AssetId(asset_definition_id, to)], value), w1, LAMBDA q :
         ROk([w1 EXCEPT !.assets[AssetId(asset_definition_id, to)] = q.v], Zero))
    ELSE ROk([w1 EXCEPT !.assets = Put(@, AssetId(asset_definition_id, to), value)], Zero))

\* AccountInstruction::TransferAsset(from, to, asset).execute(authority, ..)
TransferAsset(asset_definition_id, from, to, value, authority, w) ==
    Try(CanTransferAsset(authority, asset_definition_id, w), LAMBDA permitted :
    transfer_from_unchecked(asset_definition_id, from, to, value, w))

transfer_from(token, from, to, value, authority, w) ==
    TransferAsset(token, from, to, value, authority, w)

mint_asset_unchecked(asset_id, quantity, w) ==
    IF asset_id.definition_id \notin w.asset_definitions
    THEN RErr("Failed to find asset.", w)
    ELSE IF asset_id \in DOMAIN w.assets
    THEN TryIn(AddU32(w.assets[asset_id], quantity), w, LAMBDA q :
         ROk([w EXCEPT !.assets[asset_id] = q.v], Zero))
    ELSE IF asset_id.account_id \notin w.accounts
    THEN Res("Panic", "add_asset: account not found", w, Zero)
    ELSE ROk([w EXCEPT !.assets = Put(@, asset_id, quantity)], Zero)

burn_asset_unchecked(asset_id, quantity, w) ==
    IF asset_id.definition_id \notin w.asset_definitions
    THEN RErr("Failed to find asset definition.", w)
    ELSE IF asset_id \notin DOMAIN w.assets
    THEN RErr("Account does not contain the asset.", w)
    ELSE IF Less(w.assets[asset_id], quantity)
    THEN RErr("Insufficient asset quantity to burn.", w)
    ELSE ROk([w EXCEPT !.assets[asset_id] = Sub(@, quantity)], Zero)

----------------------------------------------------------------------------
(* Pool engine.  The functions below take the handler's local copy `data`  *)
(* of the pool and return it, changed, in v.data.                          *)

\* xyk_pool_update without the assignment of the reserves
xyk_pool_update_stale(balance_a, balance_b, data) == data

xyk_pool_update(balance_a, balance_b, data) ==
    [data EXCEPT !.base_asset_reserve = balance_a,
                 !.target_asset_reserve = balance_b]

xyk_pool_mint_pool_token(to, quantity, w, data) ==
    Try(mint_asset_unchecked(AssetId(data.pool_token_asset_definition_id, to),
                             quantity, w), LAMBDA minted :
    TryIn(AddU32(data.pool_token_total_supply, quantity), minted.w, LAMBDA supply :
    ROk(minted.w, [data EXCEPT !.pool_token_total_supply = supply.v])))

xyk_pool_burn_pool_token(from, value, w, data) ==
    Try(burn_asset_unchecked(AssetId(data.pool_token_asset_definition_id, from),
                             value, w), LAMBDA burned :
    TryIn(SubU32(data.pool_token_total_supply, value), burned.w, LAMBDA supply :
    ROk(burned.w, [data EXCEPT !.pool_token_total_supply = supply.v])))

xyk_pool_mint_pool_token_fee(w, data) ==
    IF data.fee_to # None
    THEN IF data.k_last # Zero
         THEN
         TryIn(MulU32(data.base_asset_reserve, data.target_asset_reserve), w, LAMBDA k :
         Let2(integer_sqrt(k.v), integer_sqrt(data.k_last), LAMBDA root_k, root_k_last :
         IF Less(root_k_last, root_k)
         THEN
         TryIn(MulU32(data.pool_token_total_supply, Sub(root_k, root_k_last)), w,
               LAMBDA numerator :
         Let(Add(MulSmall(root_k, 5), root_k_last), LAMBDA demonimator :
         Let(Div(numerator.v, demonimator), LAMBDA liquidity :
         IF liquidity # Zero
         THEN xyk_pool_mint_pool_token(data.fee_to[1], liquidity, w, data)
         ELSE ROk(w, data))))
         ELSE ROk(w, data)))
         ELSE ROk(w, data)
    ELSE IF data.k_last # Zero THEN ROk(w, [data EXCEPT !.k_last = Zero])
    ELSE ROk(w, data)

\* the `liquidity` of xyk_pool_mint_pool_token_with_fee and the total supply
\* it leaves, before the mint to the recipient
MintedLiquidity(amount_a, amount_b, data) ==
    IF data.pool_token_total_supply = Zero
    THEN
    Try(MulU32(amount_a, amount_b), LAMBDA product :
    Try(SubU32(integer_sqrt(product.v), MINIMUM_LIQUIDITY), LAMBDA liquidity :
    Ok([liquidity |-> liquidity.v,
        data |-> [data EXCEPT !.pool_token_total_supply = MINIMUM_LIQUIDITY]])))
    ELSE
    Try(MulU32(amount_a, data.pool_token_total_supply), LAMBDA pa :
    Try(DivU32(pa.v, data.base_asset_reserve), LAMBDA qa :
    Try(MulU32(amount_b, data.pool_token_total_supply), LAMBDA pb :
    Try(DivU32(pb.v, data.target_asset_reserve), LAMBDA qb :
    Ok([liquidity |-> Min(qa.v, qb.v), data |-> data])))))

\* k_last = base_asset_reserve * target_asset_reserve if fee_to.is_some()
UpdateKLast(w, data) ==
    IF data.fee_to # None
    THEN TryIn(MulU32(data.base_asset_reserve, data.target_asset_reserve), w, LAMBDA k :
         ROk(w, [data EXCEPT !.k_last = k.v]))
    ELSE ROk(w, data)

\* the mint with the reserves advanced by the deposited amounts instead of
\* being read from the storage balances
mint_pool_token_counting_deposit(to, token_pair_id, amount_a, amount_b, w, data) ==
    Try(xyk_pool_mint_pool_token_fee(w, data), LAMBDA fee :
    TryIn(MintedLiquidity(amount_a, amount_b, fee.v), fee.w, LAMBDA liquidity :
    IF ~(liquidity.v.liquidity # Zero)
    THEN RErr("insufficient liquidity minted", fee.w)
    ELSE
    Try(xyk_pool_mint_pool_token(to, liquidity.v.liquidity, fee.w, liquidity.v.data),
        LAMBDA minted :
    Let(xyk_pool_update(Wrap32(Add(data.base_asset_reserve, amount_a)),
                        Wrap32(Add(data.target_asset_reserve, amount_b)), minted.v),
        LAMBDA updated :
    UpdateKLast(minted.w, updated)))))

xyk_pool_mint_pool_token_with_fee(to, token_pair_id, amount_a, amount_b, w, data) ==
    Try(get_asset_quantity(data.storage_account_id, token_pair_id.base_asset_id, w),
        LAMBDA balance_a :
    Try(get_asset_quantity(data.storage_account_id, token_pair_id.target_asset_id, w),
        LAMBDA balance_b :
    Try(xyk_pool_mint_pool_token_fee(w, data), LAMBDA fee :
    TryIn(MintedLiquidity(amount_a, amount_b, fee.v), fee.w, LAMBDA liquidity :
    IF ~(liquidity.v.liquidity # Zero)
    THEN RErr("insufficient liquidity minted", fee.w)
    ELSE
    Try(xyk_pool_mint_pool_token(to, liquidity.v.liquidity, fee.w, liquidity.v.data),
        LAMBDA minted :
    Let(xyk_pool_update(balance_a.v, balance_b.v, minted.v), LAMBDA updated :
    UpdateKLast(minted.w, updated)))))))

\* the pro-rata amounts of a burn, each one unit above the truncated quotient
BurnedAmountsAndOne(liquidity, balance_a, balance_b, data) ==
    Try(MulU32(liquidity, balance_a), LAMBDA pa :
    Try(DivU32(pa.v, data.pool_token_total_supply), LAMBDA amount_a :
    Try(MulU32(liquidity, balance_b), LAMBDA pb :
    Try(DivU32(pb.v, data.pool_token_total_supply), LAMBDA amount_b :
    Ok(<<Add(amount_a.v, One), Add(amount_b.v, One)>>)))))

\* amount_a, amount_b of xyk_pool_burn_pool_token_with_fee
BurnedAmounts(liquidity, balance_a, balance_b, data) ==
    Try(MulU32(liquidity, balance_a), LAMBDA pa :
    Try(DivU32(pa.v, data.pool_token_total_supply), LAMBDA amount_a :
    Try(MulU32(liquidity, balance_b), LAMBDA pb :
    Try(DivU32(pb.v, data.pool_token_total_supply), LAMBDA amount_b :
    Ok(<<amount_a.v, amount_b.v>>)))))

\* the tail of xyk_pool_burn_pool_token_with_fee, after the two payouts
BurnUpdate(token_pair_id, amount_a, amount_b, w, data) ==
    Try(get_asset_quantity(data.storage_account_id, token_pair_id.base_asset_id, w),
        LAMBDA balance_a :
    Try(get_asset_quantity(data.storage_account_id, token_pair_id.target_asset_id, w),
        LAMBDA balance_b :
    Let(xyk_pool_update(balance_a.v, balance_b.v, data), LAMBDA updated :
    IF ~(updated.base_asset_reserve # Zero /\ updated.target_asset_reserve # Zero)
    THEN RErr("Insufficient reserves.", w)
    ELSE
    Try(UpdateKLast(w, updated), LAMBDA k :
    ROk(w, [data |-> k.v, amount_a |-> amount_a, amount_b |-> amount_b])))))

\* returns v = [data, amount_a, amount_b]
xyk_pool_burn_pool_token_with_fee(to, token_pair_id, liquidity, w, data) ==
    Try(get_asset_quantity(data.storage_account_id, token_pair_id.base_asset_id, w),
        LAMBDA balance_a :
    Try(get_asset_quantity(data.storage_account_id, token_pair_id.target_asset_id, w),
        LAMBDA balance_b :
    Try(xyk_pool_mint_pool_token_fee(w, data), LAMBDA fee :
    TryIn(BurnedAmounts(liquidity, balance_a.v, balance_b.v, fee.v), fee.w,
          LAMBDA amounts :
    IF ~(amounts.v[1] # Zero /\ amounts.v[2] # Zero)
    THEN RErr("insufficient liqudity burned", fee.w)
    ELSE
    Try(xyk_pool_burn_pool_token(fee.v.storage_account_id, liquidity, fee.w, fee.v),
        LAMBDA burned :
    Try(transfer_from_unchecked(token_pair_id.base_asset_id,
                                burned.v.storage_account_id, to, amounts.v[1], burned.w),
        LAMBDA paid_a :
    Try(transfer_from_unchecked(token_pair_id.target_asset_id,
                                burned.v.storage_account_id, to, amounts.v[2], paid_a.w),
        LAMBDA paid_b :
    BurnUpdate(token_pair_id, amounts.v[1], amounts.v[2], paid_b.w, burned.v))))))))

----------------------------------------------------------------------------
(* Liquidity instructions *)

xyk_pool_add_liquidity_execute(liquidity_source_id, amount_a_desired, amount_b_desired, amount_a_min, amount_b_min, to, authority, w) ==
    Try(get_xyk_pool_data(liquidity_source_id, w), LAMBDA data :
    TryIn(xyk_pool_get_optimal_deposit_amounts(
              data.v.base_asset_reserve, data.v.target_asset_reserve,
              amount_a_desired, amount_b_desired, amount_a_min, amount_b_min), w,
          LAMBDA amounts :
    Try(transfer_from(liquidity_source_id.token_pair_id.base_asset_id, authority,
                      data.v.storage_account_id, amounts.v[1], authority, w),
        LAMBDA paid_a :
    Try(transfer_from(liquidity_source_id.token_pair_id.target_asset_id, authority,
                      data.v.storage_account_id, amounts.v[2], authority, paid_a.w),
        LAMBDA paid_b :
    Try(xyk_pool_mint_pool_token_with_fee(to, liquidity_source_id.token_pair_id,
                                          amounts.v[1], amounts.v[2], paid_b.w, data.v),
        LAMBDA minted :
    replace_xyk_pool_data(liquidity_source_id, minted.v, minted.w))))))

xyk_pool_remove_liquidity_execute(liquidity_source_id, liquidity, amount_a_min, amount_b_min, to, authority, w) ==
    Try(get_xyk_pool_data(liquidity_source_id, w), LAMBDA data :
    Try(transfer_from(data.v.pool_token_asset_definition_id, authority,
                      data.v.storage_account_id, liquidity, authority, w),
        LAMBDA moved :
    Try(xyk_pool_burn_pool_token_with_fee(to, liquidity_source_id.token_pair_id,
                                          liquidity, moved.w, data.v),
        LAMBDA burned :
    IF ~Leq(amount_a_min, burned.v.amount_a)
    THEN RErr("insufficient a amount", burned.w)
    ELSE IF ~Leq(amount_b_min, burned.v.amount_b)
    THEN RErr("insufficient b amount", burned.w)
    ELSE replace_xyk_pool_data(liquidity_source_id, burned.v.data, burned.w))))

----------------------------------------------------------------------------
(* Router *)

liquidity_source_id_for_tokens(asset_a_id, asset_b_id, liquidity_source_type, dex_id, w) ==
    Try(get_dex(dex_id.domain_name, w), LAMBDA dex :
    IF asset_a_id = dex.v.base_asset_id
    THEN ROk(w, LiquiditySourceId(TokenPairId(dex_id, asset_a_id, asset_b_id),
                                  liquidity_source_type))
    ELSE IF asset_b_id = dex.v.base_asset_id
    THEN ROk(w, LiquiditySourceId(TokenPairId(dex_id, asset_b_id, asset_a_id),
                                  liquidity_source_type))
    ELSE RErr("neither of tokens is base asset", w))

\* the pool data of the XYK pool of an unordered pair of assets
xyk_pool_data_for_tokens(asset_a_id, asset_b_id, dex_id, w) ==
    Try(liquidity_source_id_for_tokens(asset_a_id, asset_b_id, "XYKPool", dex_id, w),
        LAMBDA xyk_pool_id :
    get_xyk_pool_data(xyk_pool_id.v, w))

\* a reserve lookup that quotes a pair it cannot resolve as a pool with
\* reserves (1, 1)
xyk_pool_get_reserves_of_any_pair(dex_id, asset_a_id, asset_b_id, w) ==
    IF xyk_pool_data_for_tokens(asset_a_id, asset_b_id, dex_id, w).tag = "Ok"
    THEN Try(xyk_pool_data_for_tokens(asset_a_id, asset_b_id, dex_id, w), LAMBDA data :
         IF asset_a_id = w.dex[dex_id.domain_name][1].base_asset_id
         THEN ROk(w, <<data.v.base_asset_reserve, data.v.target_asset_reserve>>)
         ELSE ROk(w, <<data.v.target_asset_reserve, data.v.base_asset_reserve>>))
    ELSE ROk(w, <<One, One>>)

xyk_pool_get_reserves(dex_id, asset_a_id, asset_b_id, w) ==
    Try(xyk_pool_data_for_tokens(asset_a_id, asset_b_id, dex_id, w), LAMBDA data :
    Try(get_dex(dex_id.domain_name, w), LAMBDA dex :
    IF asset_a_id = dex.v.base_asset_id
    THEN ROk(w, <<data.v.base_asset_reserve, data.v.target_asset_reserve>>)
    ELSE IF asset_b_id = dex.v.base_asset_id
    THEN ROk(w, <<data.v.target_asset_reserve, data.v.base_asset_reserve>>)
    ELSE RErr("neither of tokens is base asset", w)))

\* the loop of xyk_pool_get_amounts_out from hop i on; amounts so far
RECURSIVE AmountsOutFrom(_, _, _, _, _)
AmountsOutFrom(dex_id, path, i, amounts, w) ==
    IF i > Len(path) - 1 THEN ROk(w, amounts)
    ELSE
    Try(xyk_pool_get_reserves(dex_id, path[i], path[i + 1], w), LAMBDA reserves :
    TryIn(xyk_pool_get_amount_out(amounts[Len(amounts)], reserves.v[1], reserves.v[2]),
          w, LAMBDA amount :
    AmountsOutFrom(dex_id, path, i + 1, Append(amounts, amount.v), w)))

xyk_pool_get_amounts_out(dex_id, amount_in, path, w) ==
    IF ~(Len(path) >= 2) THEN RErr("invalid path", w)
    ELSE AmountsOutFrom(dex_id, path, 1, <<amount_in>>, w)

\* the loop of xyk_pool_get_amounts_in from hop i down; `amounts` holds the
\* amounts already computed, first to last
RECURSIVE AmountsInFrom(_, _, _, _, _)
AmountsInFrom(dex_id, path, i, amounts, w) ==
    IF i < 2 THEN ROk(w, amounts)
    ELSE
    Try(xyk_pool_get_reserves(dex_id, path[i - 1], path[i], w), LAMBDA reserves :
    TryIn(xyk_pool_get_amount_in(amounts[1], reserves.v[1], reserves.v[2]),
          w, LAMBDA amount :
    AmountsInFrom(dex_id, path, i - 1, <<amount.v>> \o amounts, w)))

xyk_pool_get_amounts_in(dex_id, amount_out, path, w) ==
    IF ~(Len(path) >= 2) THEN RErr("invalid path", w)
    ELSE AmountsInFrom(dex_id, path, Len(path), <<amount_out>>, w)

\* the constant-product check with both adjusted balances computed from the
\* base input
SwapCheckOfBaseInput(base_balance, target_balance, base_amount_out, target_amount_out, data) ==
    Let2(Sub(data.base_asset_reserve, base_amount_out),
         Sub(data.target_asset_reserve, target_amount_out),
         LAMBDA base_left, target_left :
    Let2(IF Less(base_left, base_balance) THEN Sub(base_balance, base_left) ELSE Zero,
         IF Less(target_left, target_balance) THEN Sub(target_balance, target_left)
         ELSE Zero,
         LAMBDA base_amount_in, target_amount_in :
    Let2(Sub(MulSmall(base_balance, 1000), MulSmall(base_amount_in, 3)),
         Sub(MulSmall(target_balance, 1000), MulSmall(base_amount_in, 3)),
         LAMBDA base_balance_adjusted, target_balance_adjusted :
    IF ~(base_amount_in # Zero \/ target_amount_in # Zero)
    THEN Err("insufficient input amount")
    ELSE IF ~Leq(MulSmall(MulSmall(Mul(data.base_asset_reserve,
                                       data.target_asset_reserve), 1000), 1000),
                 Mul(base_balance_adjusted, target_balance_adjusted))
    THEN Err("k error")
    ELSE Ok(Zero))))

\* the constant-product check with the input charged the pool's configured fee
SwapCheckOfPoolFee(base_balance, target_balance, base_amount_out, target_amount_out, data) ==
    Let2(Sub(data.base_asset_reserve, base_amount_out),
         Sub(data.target_asset_reserve, target_amount_out),
         LAMBDA base_left, target_left :
    Let2(IF Less(base_left, base_balance) THEN Sub(base_balance, base_left) ELSE Zero,
         IF Less(target_left, target_balance) THEN Sub(target_balance, target_left)
         ELSE Zero,
         LAMBDA base_amount_in, target_amount_in :
    Let2(Sub(MulSmall(base_balance, 1000), MulSmall(base_amount_in, data.fee \div 10)),
         Sub(MulSmall(target_balance, 1000), MulSmall(target_amount_in, data.fee \div 10)),
         LAMBDA base_balance_adjusted, target_balance_adjusted :
    IF ~(base_amount_in # Zero \/ target_amount_in # Zero)
    THEN Err("insufficient input amount")
    ELSE IF ~Leq(MulSmall(MulSmall(Mul(data.base_asset_reserve,
                                       data.target_asset_reserve), 1000), 1000),
                 Mul(base_balance_adjusted, target_balance_adjusted))
    THEN Err("k error")
    ELSE Ok(Zero))))

\* xyk_pool_swap without its input and constant-product requirements
SwapCheckNone(base_balance, target_balance, base_amount_out, target_amount_out, data) ==
    Ok(Zero)

\* the amounts the pool received, and the constant-product check
SwapCheck(base_balance, target_balance, base_amount_out, target_amount_out, data) ==
    Let2(Sub(data.base_asset_reserve, base_amount_out),
         Sub(data.target_asset_reserve, target_amount_out),
         LAMBDA base_left, target_left :
    Let2(IF Less(base_left, base_balance) THEN Sub(base_balance, base_left) ELSE Zero,
         IF Less(target_left, target_balance) THEN Sub(target_balance, target_left)
         ELSE Zero,
         LAMBDA base_amount_in, target_amount_in :
    Let2(Sub(MulSmall(base_balance, 1000), MulSmall(base_amount_in, 3)),
         Sub(MulSmall(target_balance, 1000), MulSmall(target_amount_in, 3)),
         LAMBDA base_balance_adjusted, target_balance_adjusted :
    IF ~(base_amount_in # Zero \/ target_amount_in # Zero)
    THEN Err("insufficient input amount")
    ELSE IF ~Leq(MulSmall(MulSmall(Mul(data.base_asset_reserve,
                                       data.target_asset_reserve), 1000), 1000),
                 Mul(base_balance_adjusted, target_balance_adjusted))
    THEN Err("k error")
    ELSE Ok(Zero))))

\* xyk_pool_swap that leaves the cached reserves as they were
xyk_pool_swap_without_update(dex_id, base_asset_id, target_asset_id, base_amount_out, target_amount_out, to, w) ==
    IF ~(base_amount_out # Zero \/ target_amount_out # Zero)
    THEN RErr("insufficient output amount", w)
    ELSE
    Try(liquidity_source_id_for_tokens(base_asset_id, target_asset_id, "XYKPool",
                                       dex_id, w), LAMBDA xyk_pool_id :
    Try(get_xyk_pool_data(xyk_pool_id.v, w), LAMBDA data :
    IF ~(Less(base_amount_out, data.v.base_asset_reserve)
         /\ Less(target_amount_out, data.v.target_asset_reserve))
    THEN RErr("insufficient liquidity", w)
    ELSE
    Try(IF base_amount_out # Zero
        THEN transfer_from_unchecked(base_asset_id, data.v.storage_account_id, to,
                                     base_amount_out, w)
        ELSE ROk(w, Zero), LAMBDA sent_a :
    Try(IF target_amount_out # Zero
        THEN transfer_from_unchecked(target_asset_id, data.v.storage_account_id, to,
                                     target_amount_out, sent_a.w)
        ELSE ROk(sent_a.w, Zero), LAMBDA sent_b :
    Try(get_asset_quantity(data.v.storage_account_id, base_asset_id, sent_b.w),
        LAMBDA base_balance :
    Try(get_asset_quantity(data.v.storage_account_id, target_asset_id, sent_b.w),
        LAMBDA target_balance :
    TryIn(SwapCheck(base_balance.v, target_balance.v, base_amount_out,
                    target_amount_out, data.v), sent_b.w, LAMBDA checked :
    ROk(sent_b.w, Zero))))))))

xyk_pool_swap(dex_id, base_asset_id, target_asset_id, base_amount_out, target_amount_out, to, w) ==
    IF ~(base_amount_out # Zero \/ target_amount_out # Zero)
    THEN RErr("insufficient output amount", w)
    ELSE
    Try(liquidity_source_id_for_tokens(base_asset_id, target_asset_id, "XYKPool",
                                       dex_id, w), LAMBDA xyk_pool_id :
    Try(get_xyk_pool_data(xyk_pool_id.v, w), LAMBDA data :
    IF ~(Less(base_amount_out, data.v.base_asset_reserve)
         /\ Less(target_amount_out, data.v.target_asset_reserve))
    THEN RErr("insufficient liquidity", w)
    ELSE
    Try(IF base_amount_out # Zero
        THEN transfer_from_unchecked(base_asset_id, data.v.storage_account_id, to,
                                     base_amount_out, w)
        ELSE ROk(w, Zero), LAMBDA sent_a :
    Try(IF target_amount_out # Zero
        THEN transfer_from_unchecked(target_asset_id, data.v.storage_account_id, to,
                                     target_amount_out, sent_a.w)
        ELSE ROk(sent_a.w, Zero), LAMBDA sent_b :
    Try(get_asset_quantity(data.v.storage_account_id, base_asset_id, sent_b.w),
        LAMBDA base_balance :
    Try(get_asset_quantity(data.v.storage_account_id, target_asset_id, sent_b.w),
        LAMBDA target_balance :
    TryIn(SwapCheck(base_balance.v, target_balance.v, base_amount_out,
                    target_amount_out, data.v), sent_b.w, LAMBDA checked :
    Let(xyk_pool_update(base_balance.v, target_balance.v, data.v), LAMBDA updated :
    replace_xyk_pool_data(xyk_pool_id.v, updated, sent_b.w)))))))))

\* the account that receives the output of hop i
NextAccount(dex_id, path, i, to, w) ==
    IF i < Len(path) - 1
    THEN Try(xyk_pool_data_for_tokens(path[i + 1], path[i + 2], dex_id, w),
             LAMBDA data : ROk(w, data.v.storage_account_id))
    ELSE ROk(w, to)

\* the loop of xyk_pool_swap_all from hop i on
RECURSIVE SwapAllFrom(_, _, _, _, _, _, _)
SwapAllFrom(dex_id, dex_base_asset_id, amounts, path, i, to, w) ==
    IF i > Len(path) - 1 THEN ROk(w, Zero)
    ELSE IF path[i] # dex_base_asset_id /\ path[i + 1] # dex_base_asset_id
    THEN RErr("neither of tokens is base asset", w)
    ELSE
    Try(NextAccount(dex_id, path, i, to, w), LAMBDA next_account :
    Try(IF path[i] = dex_base_asset_id
        THEN \* the base asset is the input: the target asset goes out
             xyk_pool_swap(dex_id, path[i], path[i + 1], Zero, amounts[i + 1],
                           next_account.v, w)
        ELSE xyk_pool_swap(dex_id, path[i + 1], path[i], amounts[i + 1], Zero,
                           next_account.v, w), LAMBDA swapped :
    SwapAllFrom(dex_id, dex_base_asset_id, amounts, path, i + 1, to, swapped.w)))

xyk_pool_swap_all(dex_id, amounts, path, to, w) ==
    Try(get_dex(dex_id.domain_name, w), LAMBDA dex :
    SwapAllFrom(dex_id, dex.v.base_asset_id, amounts, path, 1, to, w))

xyk_pool_swap_tokens_execute(dex_id, path, amounts, to, authority, w) ==
    Try(xyk_pool_data_for_tokens(path[1], path[2], dex_id, w), LAMBDA first_pool_data :
    Try(transfer_from(path[1], authority, first_pool_data.v.storage_account_id,
                      amounts[1], authority, w), LAMBDA paid :
    xyk_pool_swap_all(dex_id, amounts, path, to, paid.w)))

\* the exact-in swap without the requirement on the quoted output
swap_exact_tokens_without_minimum(dex_id, path, amount_in, amount_out_min, to, authority, w) ==
    Try(xyk_pool_get_amounts_out(dex_id, amount_in, path, w), LAMBDA amounts :
    xyk_pool_swap_tokens_execute(dex_id, path, amounts.v, to, authority, w))

xyk_pool_swap_exact_tokens_for_tokens_execute(dex_id, path, amount_in, amount_out_min, to, authority, w) ==
    Try(xyk_pool_get_amounts_out(dex_id, amount_in, path, w), LAMBDA amounts :
    IF ~Leq(amount_out_min, amounts.v[Len(amounts.v)])
    THEN RErr("insufficient output amount", w)
    ELSE xyk_pool_swap_tokens_execute(dex_id, path, amounts.v, to, authority, w))

\* the exact-out swap without the requirement on the quoted input
swap_tokens_for_exact_without_maximum(dex_id, path, amount_out, amount_in_max, to, authority, w) ==
    Try(xyk_pool_get_amounts_in(dex_id, amount_out, path, w), LAMBDA amounts :
    xyk_pool_swap_tokens_execute(dex_id, path, amounts.v, to, authority, w))

xyk_pool_swap_tokens_for_exact_tokens_execute(dex_id, path, amount_out, amount_in_max, to, authority, w) ==
    Try(xyk_pool_get_amounts_in(dex_id, amount_out, path, w), LAMBDA amounts :
    IF ~Leq(amounts.v[1], amount_in_max)
    THEN RErr("excessive input amount", w)
    ELSE xyk_pool_swap_tokens_execute(dex_id, path, amounts.v, to, authority, w))

----------------------------------------------------------------------------
(* Registry instructions *)

\* Register<Domain, DEX>::execute that replaces the DEX a domain already has
initialize_dex_overwriting(dex, domain_name, authority, w) ==
    Try(CanManageDEX(authority, domain_name, w), LAMBDA permitted :
    IF dex.owner_account_id \notin w.accounts THEN RErr("account not found", w)
    ELSE IF domain_name \notin w.domain_names THEN RErr("domain not found", w)
    ELSE ROk([w EXCEPT !.dex[domain_name] = Some(dex)], Zero))

\* Register<Domain, DEX>::execute
initialize_dex_execute(dex, domain_name, authority, w) ==
    Try(CanManageDEX(authority, domain_name, w), LAMBDA permitted :
    IF dex.owner_account_id \notin w.accounts THEN RErr("account not found", w)
    ELSE IF domain_name \notin w.domain_names THEN RErr("domain not found", w)
    ELSE IF w.dex[domain_name] = None
    THEN ROk([w EXCEPT !.dex[domain_name] = Some(dex)], Zero)
    ELSE RErr("dex is already initialized for domain", w))

\* Add<DEX, TokenPair>::execute without the requirements on the two assets
create_token_pair_unvalidated(token_pair, dex_id, authority, w) ==
    Try(CanManageDEX(authority, dex_id.domain_name, w), LAMBDA permitted :
    Try(get_dex(dex_id.domain_name, w), LAMBDA dex :
    IF token_pair.id \in DOMAIN dex.v.token_pairs
    THEN RErr("token pair already exists", w)
    ELSE ROk([w EXCEPT !.dex[dex_id.domain_name][1].token_pairs =
                           Put(@, token_pair.id, token_pair)], Zero)))

\* Add<DEX, TokenPair>::execute
create_token_pair_execute(token_pair, dex_id, authority, w) ==
    Try(CanManageDEX(authority, dex_id.domain_name, w), LAMBDA permitted :
    Let2(token_pair.id.base_asset_id, token_pair.id.target_asset_id,
         LAMBDA base_asset_definition, target_asset_definition :
    Try(get_dex(dex_id.domain_name, w), LAMBDA dex :
    IF base_asset_definition.domain_name \notin w.domain_names
    THEN RErr("domain not found", w)
    ELSE IF target_asset_definition.domain_name \notin w.domain_names
    THEN RErr("domain not found", w)
    ELSE IF base_asset_definition \notin w.asset_definitions
    THEN RErr("base asset definition not found", w)
    ELSE IF base_asset_definition # dex.v.base_asset_id
    THEN RErr("base asset definition is incorrect", w)
    ELSE IF target_asset_definition \notin w.asset_definitions
    THEN RErr("target asset definition not found", w)
    ELSE IF base_asset_definition = target_asset_definition
    THEN RErr("assets in token pair must be different", w)
    ELSE IF token_pair.id \in DOMAIN dex.v.token_pairs
    THEN RErr("token pair already exists", w)
    ELSE ROk([w EXCEPT !.dex[dex_id.domain_name][1].token_pairs =
                           Put(@, token_pair.id, token_pair)], Zero))))

\* Remove<DEX, TokenPairId>::execute that takes a vacant entry as removed
remove_token_pair_if_any(token_pair_id, authority, w) ==
    Try(CanManageDEX(authority, token_pair_id.dex_id.domain_name, w), LAMBDA permitted :
    Try(get_dex(token_pair_id.dex_id.domain_name, w), LAMBDA dex :
    ROk([w EXCEPT !.dex[token_pair_id.dex_id.domain_name][1].token_pairs =
                      Drop(@, token_pair_id)], Zero)))

\* Remove<DEX, TokenPairId>::execute that reports success and leaves the token
\* pair in the DEX
remove_token_pair_left_in_place(token_pair_id, authority, w) ==
    Try(CanManageDEX(authority, token_pair_id.dex_id.domain_name, w), LAMBDA permitted :
    Try(get_dex(token_pair_id.dex_id.domain_name, w), LAMBDA dex :
    IF token_pair_id \in DOMAIN dex.v.token_pairs
    THEN ROk(w, Zero)
    ELSE RErr("token pair does not exist", w)))

\* Remove<DEX, TokenPairId>::execute
remove_token_pair_execute(token_pair_id, authority, w) ==
    Try(CanManageDEX(authority, token_pair_id.dex_id.domain_name, w), LAMBDA permitted :
    Try(get_dex(token_pair_id.dex_id.domain_name, w), LAMBDA dex :
    IF token_pair_id \in DOMAIN dex.v.token_pairs
    THEN ROk([w EXCEPT !.dex[token_pair_id.dex_id.domain_name][1].token_pairs =
                           Drop(@, token_pair_id)], Zero)
    ELSE RErr("token pair does not exist", w)))

\* Add<TokenPair, LiquiditySource>::execute
\* Add<TokenPair, LiquiditySource>::execute that replaces a liquidity source the
\* token pair already holds
create_liquidity_source_replacing(liquidity_source, authority, w) ==
    Let(liquidity_source.id.token_pair_id, LAMBDA token_pair_id :
    Try(CanManageDEX(authority, token_pair_id.dex_id.domain_name, w), LAMBDA permitted :
    Try(get_token_pair(token_pair_id, w), LAMBDA token_pair :
    ROk([w EXCEPT !.dex[token_pair_id.dex_id.domain_name][1]
                      .token_pairs[token_pair_id].liquidity_sources =
                          Put(Drop(@, liquidity_source.id), liquidity_source.id,
                              liquidity_source)], Zero))))

create_liquidity_source_execute(liquidity_source, authority, w) ==
    Let(liquidity_source.id.token_pair_id, LAMBDA token_pair_id :
    Try(CanManageDEX(authority, token_pair_id.dex_id.domain_name, w), LAMBDA permitted :
    Try(get_token_pair(token_pair_id, w), LAMBDA token_pair :
    IF liquidity_source.id \in DOMAIN token_pair.v.liquidity_sources
    THEN RErr("liquidity source already exists for token pair", w)
    ELSE ROk([w EXCEPT !.dex[token_pair_id.dex_id.domain_name][1]
                           .token_pairs[token_pair_id].liquidity_sources =
                               Put(@, liquidity_source.id, liquidity_source)], Zero))))

\* xyk_pool_set_fee_execute without the CanManageDEX check
xyk_pool_set_fee_execute_unchecked(liquidity_source_id, fee, authority, w) ==
    Try(get_xyk_pool_data(liquidity_source_id, w), LAMBDA xyk_pool :
    IF fee > MAX_BASIS_POINTS
    THEN RErr("fee could not be greater than 100 percent", w)
    ELSE replace_xyk_pool_data(liquidity_source_id, [xyk_pool.v EXCEPT !.fee = fee], w))

xyk_pool_set_fee_execute(liquidity_source_id, fee, authority, w) ==
    Try(CanManageDEX(authority, liquidity_source_id.token_pair_id.dex_id.domain_name, w),
        LAMBDA permitted :
    Try(get_xyk_pool_data(liquidity_source_id, w), LAMBDA xyk_pool :
    IF fee > MAX_BASIS_POINTS
    THEN RErr("fee could not be greater than 100 percent", w)
    ELSE replace_xyk_pool_data(liquidity_source_id, [xyk_pool.v EXCEPT !.fee = fee], w)))

\* xyk_pool_set_protocol_fee_part_execute without the bound on the value
xyk_pool_set_protocol_fee_part_unbounded(liquidity_source_id, protocol_fee_part, authority, w) ==
    Try(CanManageDEX(authority, liquidity_source_id.token_pair_id.dex_id.domain_name, w),
        LAMBDA permitted :
    Try(get_xyk_pool_data(liquidity_source_id, w), LAMBDA xyk_pool :
    replace_xyk_pool_data(liquidity_source_id,
                          [xyk_pool.v EXCEPT !.protocol_fee_part = protocol_fee_part], w)))

xyk_pool_set_protocol_fee_part_execute(liquidity_source_id, protocol_fee_part, authority, w) ==
    Try(CanManageDEX(authority, liquidity_source_id.token_pair_id.dex_id.domain_name, w),
        LAMBDA permitted :
    Try(get_xyk_pool_data(liquidity_source_id, w), LAMBDA xyk_pool :
    IF protocol_fee_part > MAX_BASIS_POINTS
    THEN RErr("protocol fee fraction could not be greater than 100 percent", w)
    ELSE replace_xyk_pool_data(liquidity_source_id,
                               [xyk_pool.v EXCEPT !.protocol_fee_part = protocol_fee_part],
                               w)))

----------------------------------------------------------------------------
(* Composite pool creation: create_xyk_pool builds                         *)
(*   If(ExecuteQuery(GetTokenPair), Sequence[Register asset definition,    *)
(*      Register account, CreateLiquiditySource], Fail)                    *)

\* Register<Domain, AssetDefinition>::execute of the ledger
register_asset_definition_execute(asset_definition_id, domain_name, authority, w) ==
    IF ~HasPermission(authority, <<"RegisterAssetDefinition">>, w)
    THEN RErr("Error: Permission not found.", w)
    ELSE IF domain_name \notin w.domain_names THEN RErr("Failed to find domain.", w)
    ELSE ROk([w EXCEPT !.asset_definitions = @ \cup {asset_definition_id}], Zero)

\* Register<Domain, Account>::execute of the ledger
register_account_execute(account_id, domain_name, authority, w) ==
    IF ~HasPermission(authority, <<"RegisterAccount">>, w)
    THEN RErr("Error: Permission not found.", w)
    ELSE IF domain_name \notin w.domain_names THEN RErr("Failed to find domain.", w)
    ELSE IF account_id \in w.accounts
    THEN RErr("Domain already contains an account with an Id", w)
    ELSE ROk([w EXCEPT !.accounts = @ \cup {account_id},
                       !.permissions = Put(@, account_id, {})], Zero)

PoolTokenId(token_pair_id) ==
    AssetDefinitionId(xyk_pool_token_asset_name(token_pair_id),
                      token_pair_id.dex_id.domain_name)

StorageAccountId(token_pair_id) ==
    AccountId(xyk_pool_storage_account_name(token_pair_id),
              token_pair_id.dex_id.domain_name)

create_xyk_pool(token_pair_id, authority, w) ==
    IF get_token_pair(token_pair_id, w).tag # "Ok"
    THEN RErr("token pair not found", w)
    ELSE
    Try(register_asset_definition_execute(PoolTokenId(token_pair_id),
            token_pair_id.dex_id.domain_name, authority, w), LAMBDA r1 :
    Try(register_account_execute(StorageAccountId(token_pair_id),
            token_pair_id.dex_id.domain_name, authority, r1.w), LAMBDA r2 :
    create_liquidity_source_execute(
        new_xyk_pool(token_pair_id, PoolTokenId(token_pair_id),
                     StorageAccountId(token_pair_id)),
        authority, r2.w)))

----------------------------------------------------------------------------
(* The ledger the model runs on: the domains, assets and accounts that the *)
(* tests of dex.rs set up (TestKit).                                       *)

Soramitsu == "Soramitsu"
Polkadot  == "Polkadot"
Kusama    == "Kusama"

XOR == AssetDefinitionId(<<"XOR">>, Soramitsu)
DOT == AssetDefinitionId(<<"DOT">>, Polkadot)
KSM == AssetDefinitionId(<<"KSM">>, Kusama)

Root     == AccountId(<<"root">>, Soramitsu)
DexOwner == AccountId(<<"dex owner">>, Soramitsu)
UserA    == AccountId(<<"User A">>, Soramitsu)
UserB    == AccountId(<<"User B">>, Soramitsu)
UserC    == AccountId(<<"User C">>, Soramitsu)

\* an account that may register accounts and asset definitions and holds no
\* ManageDEX permission
Registrar == AccountId(<<"registrar">>, Soramitsu)

SoraDEX == DEXId(Soramitsu)
PairDOT == TokenPairId(SoraDEX, XOR, DOT)
PairKSM == TokenPairId(SoraDEX, XOR, KSM)
PoolDOT == LiquiditySourceId(PairDOT, "XYKPool")
PoolKSM == LiquiditySourceId(PairKSM, "XYKPool")

\* TestKit::new, register_domain, register_asset, create_account,
\* add_transfer_permission and mint_asset
Ledger ==
    [domain_names |-> {Soramitsu, Polkadot, Kusama},
     accounts |-> {Root, DexOwner, Registrar, UserA, UserB, UserC},
     asset_definitions |-> {XOR, DOT, KSM},
     assets |-> (AssetId(XOR, UserA) :> N(100000)) @@ (AssetId(DOT, UserA) :> N(100000))
                @@ (AssetId(KSM, UserA) :> N(3000))
                @@ (AssetId(XOR, UserB) :> N(500)) @@ (AssetId(DOT, UserB) :> N(500))
                @@ (AssetId(KSM, UserC) :> N(2000)),
     permissions |->
         (Root :> {<<"Anything">>})
         @@ (DexOwner :> {ManageDEX(Soramitsu), <<"RegisterAccount">>,
                          <<"RegisterAssetDefinition">>})
         @@ (Registrar :> {<<"RegisterAccount">>, <<"RegisterAssetDefinition">>})
         @@ (UserA :> {TransferAssetPermission(XOR), TransferAssetPermission(DOT),
                       TransferAssetPermission(KSM),
                       TransferAssetPermission(PoolTokenId(PairDOT)),
                       TransferAssetPermission(PoolTokenId(PairKSM))})
         @@ (UserB :> {TransferAssetPermission(XOR), TransferAssetPermission(DOT),
                       TransferAssetPermission(PoolTokenId(PairDOT))})
         @@ (UserC :> {TransferAssetPermission(KSM)}),
     dex |-> [d \in {Soramitsu, Polkadot, Kusama} |-> None]]

WithDEX ==
    Let(Ledger, LAMBDA w :
    initialize_dex_execute(DEX(Soramitsu, DexOwner, XOR), Soramitsu, DexOwner, w).w)

WithPairs ==
    Let(WithDEX, LAMBDA w :
    Let(create_token_pair_execute(TokenPair(SoraDEX, XOR, DOT), SoraDEX, DexOwner, w).w,
        LAMBDA w1 :
    create_token_pair_execute(TokenPair(SoraDEX, XOR, KSM), SoraDEX, DexOwner, w1).w))

\* DEX, both token pairs and both pools created, no liquidity yet
WithPools ==
    Let(WithPairs, LAMBDA w :
    Let(create_xyk_pool(PairDOT, DexOwner, w).w, LAMBDA w1 :
    create_xyk_pool(PairKSM, DexOwner, w1).w))

----------------------------------------------------------------------------
(* Instructions *)

add_transfer_permission_for_account_execute(asset_definition_id, account_id, authority, w) ==
    IF account_id.domain_name \notin w.domain_names THEN RErr("domain not found", w)
    ELSE IF account_id \notin w.accounts THEN RErr("failed to find account", w)
    ELSE ROk([w EXCEPT !.permissions[account_id] =
                           @ \cup {TransferAssetPermission(asset_definition_id)}], Zero)

InitializeDEX(dex, domain_name) ==
    [op |-> "InitializeDEX", dex |-> dex, domain_name |-> domain_name]
CreateTokenPair(token_pair, dex_id) ==
    [op |-> "CreateTokenPair", token_pair |-> token_pair, dex_id |-> dex_id]
RemoveTokenPair(token_pair_id, dex_id) ==
    [op |-> "RemoveTokenPair", token_pair_id |-> token_pair_id, dex_id |-> dex_id]
CreateLiquiditySource(liquidity_source, token_pair_id) ==
    [op |-> "CreateLiquiditySource", liquidity_source |-> liquidity_source,
     token_pair_id |-> token_pair_id]
\* the composite instruction that create_xyk_pool builds
CreateXYKPool(token_pair_id) == [op |-> "CreateXYKPool", token_pair_id |-> token_pair_id]
AddLiquidityToXYKPool(liquidity_source_id, amount_a_desired, amount_b_desired, amount_a_min, amount_b_min) ==
    [op |-> "AddLiquidityToXYKPool", liquidity_source_id |-> liquidity_source_id,
     amount_a_desired |-> amount_a_desired, amount_b_desired |-> amount_b_desired,
     amount_a_min |-> amount_a_min, amount_b_min |-> amount_b_min]
RemoveLiquidityFromXYKPool(liquidity_source_id, liquidity, amount_a_min, amount_b_min) ==
    [op |-> "RemoveLiquidityFromXYKPool", liquidity_source_id |-> liquidity_source_id,
     liquidity |-> liquidity, amount_a_min |-> amount_a_min,
     amount_b_min |-> amount_b_min]
SwapExactTokensForTokensOnXYKPool(dex_id, path, amount_in, amount_out_min) ==
    [op |-> "SwapExactTokensForTokensOnXYKPool", dex_id |-> dex_id, path |-> path,
     amount_in |-> amount_in, amount_out_min |-> amount_out_min]
SwapTokensForExactTokensOnXYKPool(dex_id, path, amount_out, amount_in_max) ==
    [op |-> "SwapTokensForExactTokensOnXYKPool", dex_id |-> dex_id, path |-> path,
     amount_out |-> amount_out, amount_in_max |-> amount_in_max]
SetFeeOnXYKPool(liquidity_source_id, fee) ==
    [op |-> "SetFeeOnXYKPool", liquidity_source_id |-> liquidity_source_id,
     fee |-> fee]
SetProtocolFeePartOnXYKPool(liquidity_source_id, protocol_fee_part) ==
    [op |-> "SetProtocolFeePartOnXYKPool", liquidity_source_id |-> liquidity_source_id,
     protocol_fee_part |-> protocol_fee_part]
AddTransferPermissionForAccount(asset_definition_id, account_id) ==
    [op |-> "AddTransferPermissionForAccount",
     asset_definition_id |-> asset_definition_id, account_id |-> account_id]
\* the ledger's own transfer instruction
Transfer(asset_definition_id, from, to, value) ==
    [op |-> "Transfer", asset_definition_id |-> asset_definition_id, from |-> from,
     to |-> to, value |-> value]

\* DEXInstruction::execute; the plain ledger transfer is dispatched beside it
execute(i, authority, w) ==
    CASE i.op = "InitializeDEX" ->
             initialize_dex_execute(i.dex, i.domain_name, authority, w)
      [] i.op = "CreateTokenPair" ->
             create_token_pair_execute(i.token_pair, i.dex_id, authority, w)
      [] i.op = "RemoveTokenPair" ->
             remove_token_pair_execute(i.token_pair_id, authority, w)
      [] i.op = "CreateLiquiditySource" ->
             create_liquidity_source_execute(i.liquidity_source, authority, w)
      [] i.op = "CreateXYKPool" -> create_xyk_pool(i.token_pair_id, authority, w)
      [] i.op = "AddLiquidityToXYKPool" ->
             xyk_pool_add_liquidity_execute(
                 i.liquidity_source_id, i.amount_a_desired, i.amount_b_desired,
                 i.amount_a_min, i.amount_b_min, authority, authority, w)
      [] i.op = "RemoveLiquidityFromXYKPool" ->
             xyk_pool_remove_liquidity_execute(
                 i.liquidity_source_id, i.liquidity, i.amount_a_min, i.amount_b_min,
                 authority, authority, w)
      [] i.op = "SwapExactTokensForTokensOnXYKPool" ->
             xyk_pool_swap_exact_tokens_for_tokens_execute(
                 i.dex_id, i.path, i.amount_in, i.amount_out_min, authority,
                 authority, w)
      [] i.op = "SwapTokensForExactTokensOnXYKPool" ->
             xyk_pool_swap_tokens_for_exact_tokens_execute(
                 i.dex_id, i.path, i.amount_out, i.amount_in_max, authority,
                 authority, w)
      [] i.op = "SetFeeOnXYKPool" ->
             xyk_pool_set_fee_execute(i.liquidity_source_id, i.fee, authority, w)
      [] i.op = "SetProtocolFeePartOnXYKPool" ->
             xyk_pool_set_protocol_fee_part_execute(
                 i.liquidity_source_id, i.protocol_fee_part, authority, w)
      [] i.op = "AddTransferPermissionForAccount" ->
             add_transfer_permission_for_account_execute(
                 i.asset_definition_id, i.account_id, authority, w)
      [] i.op = "Transfer" ->
             TransferAsset(i.asset_definition_id, i.from, i.to, i.value, authority, w)

----------------------------------------------------------------------------
(* The state machine.  wsv is the world state view, pre the world state    *)
(* view the last instruction started from, last the last instruction with  *)
(* its authority and outcome, steps the number of instructions so far and  *)
(* overflow_checks the build's integer-overflow mode (panic when TRUE,      *)
(* wrap-around when FALSE).                                                 *)

MaxSteps == 3

NoInstruction == [op |-> "None"]

\* what a swap instruction quotes on the state it starts from
Quoted(i, w) ==
    IF i.op = "SwapExactTokensForTokensOnXYKPool"
    THEN xyk_pool_get_amounts_out(i.dex_id, i.amount_in, i.path, w)
    ELSE IF i.op = "SwapTokensForExactTokensOnXYKPool"
    THEN xyk_pool_get_amounts_in(i.dex_id, i.amount_out, i.path, w)
    ELSE RErr("", w)

\* one instruction submitted by authority; a panic stops the node
Submit(i, authority) ==
    /\ steps < MaxSteps
    /\ last.tag # "Panic"
    /\ \E r \in {execute(i, authority, wsv)}, q \in {Quoted(i, wsv)} :
           /\ wsv' = r.w
           /\ last' = [instruction |-> i, authority |-> authority, tag |-> r.tag,
                       e |-> r.e, amounts |-> IF q.tag = "Ok" THEN q.v ELSE <<>>,
                       trace |-> <<>>]
    /\ pre' = wsv
    /\ steps' = steps + 1
    /\ UNCHANGED overflow_checks

Traders == {UserA, UserB, UserC}

\* (authority, instruction) pairs the liquidity providers submit
AddLiquidityInputs ==
    {<<UserA, AddLiquidityToXYKPool(PoolDOT, N(5000), N(7000), N(4000), N(6000))>>,
     <<UserA, AddLiquidityToXYKPool(PoolDOT, N(2000), N(3000), N(3000), Zero)>>,
     <<UserA, AddLiquidityToXYKPool(PoolDOT, N(10), N(10), Zero, Zero)>>,
     <<UserA, AddLiquidityToXYKPool(PoolDOT, N(1000), N(1000), Zero, Zero)>>,
     <<UserA, AddLiquidityToXYKPool(PoolDOT, N(70000), N(70000), Zero, Zero)>>,
     <<UserA, AddLiquidityToXYKPool(PoolDOT, N(100000), N(40000), Zero, Zero)>>,
     <<UserA, AddLiquidityToXYKPool(PoolKSM, N(6000), N(3000), Zero, Zero)>>,
     <<UserB, AddLiquidityToXYKPool(PoolDOT, N(500), N(500), Zero, Zero)>>,
     <<UserB, AddLiquidityToXYKPool(PoolDOT, N(400), N(600), Zero, Zero)>>}

RemoveLiquidityInputs ==
    {<<UserB, RemoveLiquidityFromXYKPool(PoolDOT, N(407), Zero, Zero)>>,
     <<UserA, RemoveLiquidityFromXYKPool(PoolDOT, N(4916), Zero, Zero)>>,
     <<UserA, RemoveLiquidityFromXYKPool(PoolDOT, N(4916), N(5000), Zero)>>,
     <<UserA, RemoveLiquidityFromXYKPool(PoolDOT, N(62245), Zero, Zero)>>,
     <<UserA, RemoveLiquidityFromXYKPool(PoolDOT, One, Zero, Zero)>>,
     <<UserA, RemoveLiquidityFromXYKPool(PoolDOT, N(100), Zero, Zero)>>,
     <<UserB, RemoveLiquidityFromXYKPool(PoolDOT, N(422), Zero, Zero)>>}

SwapExactInInputs ==
    {<<UserA, SwapExactTokensForTokensOnXYKPool(SoraDEX, <<XOR, DOT>>, N(2000), Zero)>>,
     <<UserA, SwapExactTokensForTokensOnXYKPool(SoraDEX, <<XOR, DOT>>, N(2000), N(2000))>>,
     <<UserA, SwapExactTokensForTokensOnXYKPool(SoraDEX, <<DOT, XOR>>, N(1000), Zero)>>,
     <<UserA, SwapExactTokensForTokensOnXYKPool(SoraDEX, <<XOR, DOT, XOR>>, N(2000), Zero)>>,
     <<UserC, SwapExactTokensForTokensOnXYKPool(SoraDEX, <<KSM, XOR, DOT>>, N(2000), Zero)>>}

SwapExactOutInputs ==
    {<<UserA, SwapTokensForExactTokensOnXYKPool(SoraDEX, <<XOR, DOT>>, N(1995), N(2000))>>,
     <<UserA, SwapTokensForExactTokensOnXYKPool(SoraDEX, <<XOR, DOT>>, N(1995), N(1000))>>}

TransferInputs ==
    {<<UserA, Transfer(XOR, UserA, StorageAccountId(PairDOT), N(100))>>,
     <<UserA, Transfer(XOR, UserA, UserB, N(100))>>}

AddLiquidity == \E s \in AddLiquidityInputs : Submit(s[2], s[1])

RemoveLiquidity == \E s \in RemoveLiquidityInputs : Submit(s[2], s[1])

SwapExactTokensForTokens == \E s \in SwapExactInInputs : Submit(s[2], s[1])

SwapTokensForExactTokens == \E s \in SwapExactOutInputs : Submit(s[2], s[1])

PlainTransfer == \E s \in TransferInputs : Submit(s[2], s[1])

Started(w) ==
    /\ wsv = w
    /\ pre = w
    /\ last = [instruction |-> NoInstruction, authority |-> Root, tag |-> "Ok",
               e |-> "", amounts |-> <<>>, trace |-> <<>>]
    /\ steps = 0
    /\ overflow_checks \in BOOLEAN

\* genesis of the pool specification: the DEX, its token pairs and its pools
\* are set up, nobody has provided liquidity
Init == Started(WithPools)

Next ==
    \/ AddLiquidity
    \/ RemoveLiquidity
    \/ SwapExactTokensForTokens
    \/ SwapTokensForExactTokens
    \/ PlainTransfer

Spec == Init /\ [][Next]_vars

----------------------------------------------------------------------------
(* Transactions (tx.rs).  A transaction is a payload [account_id,           *)
(* instructions]; trace records, for every instruction that was executed,   *)
(* its outcome and whether it changed the world state view.                 *)

Payload(account_id, instructions) ==
    [account_id |-> account_id, instructions |-> instructions]

Traced(r, w) == [tag |-> r.tag, e |-> r.e, changed |-> r.w # w]

\* SignedTransaction::validate from instruction k on: the first error returns
RECURSIVE ValidateFrom(_, _, _, _)
ValidateFrom(payload, k, w, trace) ==
    IF k > Len(payload.instructions)
    THEN [tag |-> "Ok", e |-> "", w |-> w, trace |-> trace]
    ELSE
    Let(execute(payload.instructions[k], payload.account_id, w), LAMBDA r :
    IF r.tag # "Ok"
    THEN [tag |-> r.tag, e |-> r.e, w |-> r.w, trace |-> Append(trace, Traced(r, w))]
    ELSE ValidateFrom(payload, k + 1, r.w, Append(trace, Traced(r, w))))

validate(payload, w) == ValidateFrom(payload, 1, w, <<>>)

\* ValidTransaction::proceed from instruction k on: an error is logged and the
\* loop goes on
RECURSIVE ProceedFrom(_, _, _, _)
ProceedFrom(payload, k, w, trace) ==
    IF k > Len(payload.instructions)
    THEN [tag |-> "Ok", e |-> "", w |-> w, trace |-> trace]
    ELSE
    Let(execute(payload.instructions[k], payload.account_id, w), LAMBDA r :
    IF r.tag = "Panic"
    THEN [tag |-> r.tag, e |-> r.e, w |-> r.w, trace |-> Append(trace, Traced(r, w))]
    ELSE ProceedFrom(payload, k + 1, r.w, Append(trace, Traced(r, w))))

proceed(payload, w) == ProceedFrom(payload, 1, w, <<>>)

Transactions ==
    {Payload(UserA, <<AddLiquidityToXYKPool(PoolDOT, N(5000), N(7000), N(4000), N(6000)),
                      SwapExactTokensForTokensOnXYKPool(SoraDEX, <<XOR, DOT>>,
                                                        N(2000), Zero)>>),
     Payload(UserB, <<AddLiquidityToXYKPool(PoolDOT, N(400), N(600), Zero, Zero),
                      Transfer(XOR, UserB, UserA, N(50))>>),
     Payload(UserA, <<Transfer(XOR, UserA, UserB, N(100)),
                      RemoveLiquidityFromXYKPool(PoolDOT, N(4916), N(5000), Zero)>>),
     Payload(UserA, <<RemoveLiquidityFromXYKPool(PoolDOT, N(4916), Zero, Zero)>>),
     Payload(UserB, <<Transfer(XOR, UserB, UserA, N(50)),
                      Transfer(DOT, UserB, UserA, N(50))>>)}

\* the outcome of running a whole transaction in the mode op
Ran(op, payload, outcome) ==
    /\ steps < MaxSteps
    /\ last.tag # "Panic"
    /\ \E r \in {outcome} :
           /\ wsv' = r.w
           /\ last' = [instruction |-> [op |-> op, payload |-> payload],
                       authority |-> payload.account_id, tag |-> r.tag, e |-> r.e,
                       amounts |-> <<>>, trace |-> r.trace]
    /\ pre' = wsv
    /\ steps' = steps + 1
    /\ UNCHANGED overflow_checks

Validate == \E payload \in Transactions : Ran("validate", payload, validate(payload, wsv))

Proceed == \E payload \in Transactions : Ran("proceed", payload, proceed(payload, wsv))

InitTx == Started(WithPools)

NextTx == Validate \/ Proceed

SpecTx == InitTx /\ [][NextTx]_vars

----------------------------------------------------------------------------
(* The registry specification: the DEX manager and an account without the  *)
(* ManageDEX permission build and change the topology.                      *)

RegistryAuthorities == {DexOwner, UserA}

InitializeDEXInputs ==
    {InitializeDEX(DEX(Soramitsu, DexOwner, XOR), Soramitsu),
     InitializeDEX(DEX(Polkadot, DexOwner, DOT), Polkadot),
     InitializeDEX(DEX(Soramitsu, AccountId(<<"nobody">>, Soramitsu), XOR), Soramitsu),
     InitializeDEX(DEX(Soramitsu, DexOwner, AssetDefinitionId(<<"BTC">>, Soramitsu)),
                   Soramitsu)}

CreateTokenPairInputs ==
    {CreateTokenPair(TokenPair(SoraDEX, XOR, DOT), SoraDEX),
     CreateTokenPair(TokenPair(SoraDEX, XOR, KSM), SoraDEX),
     CreateTokenPair(TokenPair(SoraDEX, DOT, KSM), SoraDEX),
     CreateTokenPair(TokenPair(SoraDEX, XOR, XOR), SoraDEX),
     CreateTokenPair(TokenPair(SoraDEX, XOR, AssetDefinitionId(<<"BTC">>, Soramitsu)),
                     SoraDEX),
     CreateTokenPair(TokenPair(SoraDEX, AssetDefinitionId(<<"BTC">>, Soramitsu), DOT),
                     SoraDEX)}

RemoveTokenPairInputs ==
    {RemoveTokenPair(PairDOT, SoraDEX), RemoveTokenPair(PairKSM, SoraDEX)}

CreateLiquiditySourceInputs ==
    {CreateLiquiditySource(new_xyk_pool(PairDOT, PoolTokenId(PairDOT),
                                        StorageAccountId(PairDOT)), PairDOT)}

SetFeeInputs ==
    {SetFeeOnXYKPool(PoolDOT, 50), SetFeeOnXYKPool(PoolDOT, 10000),
     SetFeeOnXYKPool(PoolDOT, 10001)}

SetProtocolFeePartInputs ==
    {SetProtocolFeePartOnXYKPool(PoolDOT, 5000),
     SetProtocolFeePartOnXYKPool(PoolDOT, 10001)}

InitializeDEXAction ==
    \E i \in InitializeDEXInputs, authority \in RegistryAuthorities : Submit(i, authority)

CreateTokenPairAction ==
    \E i \in CreateTokenPairInputs, authority \in RegistryAuthorities :
        Submit(i, authority)

RemoveTokenPairAction ==
    \E i \in RemoveTokenPairInputs, authority \in RegistryAuthorities :
        Submit(i, authority)

CreateLiquiditySourceAction ==
    \E i \in CreateLiquiditySourceInputs, authority \in RegistryAuthorities :
        Submit(i, authority)

CreateXYKPoolAction ==
    \E token_pair_id \in {PairDOT, PairKSM},
       authority \in RegistryAuthorities \cup {Registrar} :
        Submit(CreateXYKPool(token_pair_id), authority)

SetFeeAction ==
    \E i \in SetFeeInputs, authority \in RegistryAuthorities : Submit(i, authority)

SetProtocolFeePartAction ==
    \E i \in SetProtocolFeePartInputs, authority \in RegistryAuthorities :
        Submit(i, authority)

\* the registry at one of the stages of its set-up
InitRegistry == \E w \in {Ledger, WithDEX, WithPairs, WithPools} : Started(w)

NextRegistry ==
    \/ InitializeDEXAction
    \/ CreateTokenPairAction
    \/ RemoveTokenPairAction
    \/ CreateLiquiditySourceAction
    \/ CreateXYKPoolAction
    \/ SetFeeAction
    \/ SetProtocolFeePartAction

SpecRegistry == InitRegistry /\ [][NextRegistry]_vars

----------------------------------------------------------------------------
(* The router specification: swaps along paths, valid and invalid, on the  *)
(* DEX of test_xyk_pool_two_liquidity_providers_one_trader_should_pass     *)
(* after User A has provided liquidity to both pools.  BTC is an asset      *)
(* definition nobody has registered.                                       *)

\* both pools hold User A's liquidity: (6000, 4000) and (6000, 3000)
Provided ==
    Let(execute(AddLiquidityToXYKPool(PoolDOT, N(6000), N(4000), Zero, Zero),
                UserA, WithPools).w, LAMBDA w :
    execute(AddLiquidityToXYKPool(PoolKSM, N(6000), N(3000), Zero, Zero), UserA, w).w)

PathInputs ==
    {<<UserC, SwapExactTokensForTokensOnXYKPool(SoraDEX, <<KSM, XOR, DOT>>, N(2000), Zero)>>,
     <<UserA, SwapTokensForExactTokensOnXYKPool(SoraDEX, <<DOT, XOR, KSM>>, N(500), N(3000))>>,
     <<UserA, SwapExactTokensForTokensOnXYKPool(SoraDEX, <<DOT, XOR, DOT>>, N(1000), Zero)>>,
     <<UserA, SwapExactTokensForTokensOnXYKPool(SoraDEX, <<XOR, DOT, XOR, KSM>>, N(1000), Zero)>>,
     <<UserA, SwapExactTokensForTokensOnXYKPool(SoraDEX, <<XOR, DOT, KSM>>, N(1000), Zero)>>,
     <<UserA, SwapExactTokensForTokensOnXYKPool(SoraDEX, <<>>, N(1000), Zero)>>,
     <<UserA, SwapExactTokensForTokensOnXYKPool(SoraDEX, <<XOR>>, N(1000), Zero)>>,
     <<UserA, SwapTokensForExactTokensOnXYKPool(SoraDEX, <<XOR>>, N(500), N(3000))>>,
     <<UserA, SwapExactTokensForTokensOnXYKPool(SoraDEX, <<DOT, KSM>>, N(1000), Zero)>>,
     <<UserA, SwapTokensForExactTokensOnXYKPool(SoraDEX, <<DOT, KSM>>, N(500), N(3000))>>,
     <<UserA, SwapExactTokensForTokensOnXYKPool(SoraDEX, <<XOR, XOR>>, N(1000), Zero)>>,
     <<UserA, SwapExactTokensForTokensOnXYKPool(SoraDEX, <<DOT, XOR, XOR>>, N(1000), Zero)>>,
     <<UserA, SwapExactTokensForTokensOnXYKPool(SoraDEX, <<XOR, AssetDefinitionId(<<"BTC">>, Soramitsu)>>, N(1000), Zero)>>,
     <<UserA, SwapTokensForExactTokensOnXYKPool(SoraDEX, <<XOR, AssetDefinitionId(<<"BTC">>, Soramitsu)>>, N(500), N(3000))>>,
     <<UserA, SwapExactTokensForTokensOnXYKPool(DEXId(Polkadot), <<XOR, DOT>>, N(1000), Zero)>>}

SwapOnPath == \E s \in PathInputs : Submit(s[2], s[1])

InitRouter == Started(Provided)

NextRouter ==
    \/ AddLiquidity
    \/ RemoveLiquidity
    \/ SwapOnPath

SpecRouter == InitRouter /\ [][NextRouter]_vars

----------------------------------------------------------------------------
(* Pools with the protocol fee switched on.  fee_to is set by no           *)
(* instruction; a pool that has it arrives as the object of                *)
(* Add<TokenPair, LiquiditySource>, which stores the pool data it is given. *)

\* the XOR/DOT pool with the protocol fee paid to the DEX owner
FeePool ==
    [new_xyk_pool(PairDOT, PoolTokenId(PairDOT), StorageAccountId(PairDOT))
         EXCEPT !.data[2].fee_to = Some(DexOwner)]

\* the pool token and the storage account are registered as by
\* create_xyk_pool, then FeePool is added to its pair; the XOR/KSM pool is
\* created through create_xyk_pool
WithFeePool ==
    Let(register_asset_definition_execute(PoolTokenId(PairDOT), Soramitsu, DexOwner,
                                          WithPairs).w, LAMBDA w1 :
    Let(register_account_execute(StorageAccountId(PairDOT), Soramitsu, DexOwner, w1).w,
        LAMBDA w2 :
    Let(create_liquidity_source_execute(FeePool, DexOwner, w2).w, LAMBDA w3 :
    create_xyk_pool(PairKSM, DexOwner, w3).w)))

InitFee == Started(WithFeePool)

SpecFee == InitFee /\ [][Next]_vars

----------------------------------------------------------------------------
(* Token pairs removed under the pools.  The DEX owner, or an account      *)
(* without the permission, removes a token pair while providers and        *)
(* traders go on submitting pool instructions.                             *)

InitRemoval == Started(Provided)

NextRemoval ==
    \/ RemoveTokenPairAction
    \/ AddLiquidity
    \/ RemoveLiquidity
    \/ SwapExactTokensForTokens
    \/ SwapTokensForExactTokens
    \/ SwapOnPath

SpecRemoval == InitRemoval /\ [][NextRemoval]_vars

----------------------------------------------------------------------------
(* A provider with a balance at the top of the u32 range.  Asset quantities *)
(* are u32 per account; User A has been minted all but 10 of the DOT one    *)
(* account can hold.                                                        *)

Whale == [Provided EXCEPT !.assets[AssetId(DOT, UserA)] = Sub(U32Max, N(10))]

InitWhale == Started(Whale)

SpecWhale == InitWhale /\ [][NextRouter]_vars

----------------------------------------------------------------------------
(* The registry under instructions built field by field.  DEXInstruction,  *)
(* DEX, TokenPair and LiquiditySource are public and decoded from the wire, *)
(* so the object of an instruction need not name the destination the        *)
(* instruction carries, and the data of a liquidity source need not be of   *)
(* the kind its id names.                                                   *)

MismatchedInputs ==
    {InitializeDEX(DEX(Polkadot, DexOwner, XOR), Soramitsu),
     CreateTokenPair(TokenPair(DEXId(Polkadot), XOR, DOT), SoraDEX),
     CreateLiquiditySource([id |-> LiquiditySourceId(PairKSM, "XYKPool"),
                            data |-> <<"OrderBook">>], PairKSM)}

MismatchedRegistration ==
    \E i \in MismatchedInputs, authority \in RegistryAuthorities : Submit(i, authority)

NextMismatched ==
    \/ NextRegistry
    \/ MismatchedRegistration

SpecMismatched == InitRegistry /\ [][NextMismatched]_vars

----------------------------------------------------------------------------
(* Math kernel on its own.  The kernel functions take u32 arguments and    *)
(* touch no state; the arguments are drawn at the start and one function   *)
(* is applied to them, its result recorded in last.                        *)

\* u32 arguments: zero, the smallest amounts, the amounts of the unit tests
\* and the largest values (u32::MAX / 2, u32::MAX)
Amounts32 ==
    {Zero, N(1), N(3), N(2000), N(5000), N(7000), N(10000), N(500000),
     N(2147483647), U32Max}

Arguments(x, y, z) == [op |-> "Arguments", x |-> x, y |-> y, z |-> z]

\* reserves a deposit is computed against
ReservePairs ==
    {<<Zero, Zero>>, <<N(10000), N(5000)>>, <<Zero, N(5000)>>,
     <<U32Max, N(3)>>, <<N(3), U32Max>>, <<N(500000), N(2147483647)>>}

\* the call of a kernel function and its result
Applied(call, r) ==
    /\ last' = [instruction |-> call, authority |-> Root, tag |-> r.tag, e |-> r.e,
                amounts |-> IF r.tag = "Ok" THEN r.v ELSE <<>>, trace |-> <<>>]
    /\ steps' = steps + 1
    /\ UNCHANGED <<wsv, pre, overflow_checks>>

Quote ==
    /\ last.instruction.op = "Arguments"
    /\ \E a \in {last.instruction} :
       \E r \in {xyk_pool_quote(a.x, a.y, a.z)} :
           Applied([op |-> "xyk_pool_quote", amount_a |-> a.x, reserve_a |-> a.y,
                    reserve_b |-> a.z],
                   [r EXCEPT !.v = <<r.v>>])

GetAmountOut ==
    /\ last.instruction.op = "Arguments"
    /\ \E a \in {last.instruction} :
       \E r \in {xyk_pool_get_amount_out(a.x, a.y, a.z)} :
           Applied([op |-> "xyk_pool_get_amount_out", amount_in |-> a.x,
                    reserve_in |-> a.y, reserve_out |-> a.z],
                   [r EXCEPT !.v = <<r.v>>])

GetAmountIn ==
    /\ last.instruction.op = "Arguments"
    /\ \E a \in {last.instruction} :
       \E r \in {xyk_pool_get_amount_in(a.x, a.y, a.z)} :
           Applied([op |-> "xyk_pool_get_amount_in", amount_out |-> a.x,
                    reserve_in |-> a.y, reserve_out |-> a.z],
                   [r EXCEPT !.v = <<r.v>>])

GetOptimalDepositAmounts ==
    /\ last.instruction.op = "Arguments"
    /\ \E a \in {last.instruction} :
       \E reserves \in ReservePairs, amount_b_min \in {Zero, a.y} :
       \E r \in {xyk_pool_get_optimal_deposit_amounts(reserves[1], reserves[2], a.x, a.y, a.z, amount_b_min)} :
           Applied([op |-> "xyk_pool_get_optimal_deposit_amounts",
                    reserve_a |-> reserves[1], reserve_b |-> reserves[2],
                    amount_a_desired |-> a.x, amount_b_desired |-> a.y,
                    amount_a_min |-> a.z, amount_b_min |-> amount_b_min],
                   IF r.tag = "Ok" THEN r ELSE [r EXCEPT !.v = <<>>])

InitMath ==
    /\ wsv = Ledger
    /\ pre = Ledger
    /\ \E x \in Amounts32, y \in Amounts32, z \in Amounts32 :
           last = [instruction |-> Arguments(x, y, z), authority |-> Root,
                   tag |-> "Ok", e |-> "", amounts |-> <<>>, trace |-> <<>>]
    /\ steps = 0
    /\ overflow_checks \in BOOLEAN

NextMath ==
    \/ Quote
    \/ GetAmountOut
    \/ GetAmountIn
    \/ GetOptimalDepositAmounts

SpecMath == InitMath /\ [][NextMath]_vars

----------------------------------------------------------------------------
(* Queries *)

\* GetTokenPairCount::execute: the count of the query result
GetTokenPairCount(dex_id, w) ==
    Try(get_dex(dex_id.domain_name, w), LAMBDA dex :
    ROk(w, Cardinality(DOMAIN dex.v.token_pairs)))

\* GetXYKPoolInfo::execute: the pool data of the query result
GetXYKPoolInfo(liquidity_source_id, w) ==
    Try(get_liquidity_source(liquidity_source_id, w), LAMBDA liquidity_source :
    expect_xyk_pool_data(liquidity_source.v, w))

----------------------------------------------------------------------------
(* Observations on a world state view *)

Balance(w, account_id, asset_definition_id) ==
    IF AssetId(asset_definition_id, account_id) \in DOMAIN w.assets
    THEN w.assets[AssetId(asset_definition_id, account_id)]
    ELSE Zero

\* the ids of all liquidity sources registered in w
Pools(w) ==
    UNION {UNION {DOMAIN w.dex[d][1].token_pairs[t].liquidity_sources :
                      t \in DOMAIN w.dex[d][1].token_pairs} :
               d \in {n \in DOMAIN w.dex : w.dex[n] # None}}

PoolData(id, w) ==
    w.dex[id.token_pair_id.dex_id.domain_name][1].token_pairs[id.token_pair_id]
     .liquidity_sources[id].data[2]

RECURSIVE SumOver(_, _)
SumOver(ids, w) ==
    IF ids = {} THEN Zero
    ELSE LET a == CHOOSE x \in ids : TRUE
         IN  Add(w.assets[a], SumOver(ids \ {a}, w))

\* the circulating amount of an asset: the sum of its balances over all accounts
Circulating(asset_definition_id, w) ==
    SumOver({a \in DOMAIN w.assets : a.definition_id = asset_definition_id}, w)

PoolInstructions ==
    {"AddLiquidityToXYKPool", "RemoveLiquidityFromXYKPool",
     "SwapExactTokensForTokensOnXYKPool", "SwapTokensForExactTokensOnXYKPool"}

SwapInstructions ==
    {"SwapExactTokensForTokensOnXYKPool", "SwapTokensForExactTokensOnXYKPool"}

\* the pool that trades the two assets of one hop
HopPool(dex_id, x, y, w) ==
    IF x = w.dex[dex_id.domain_name][1].base_asset_id
    THEN LiquiditySourceId(TokenPairId(dex_id, x, y), "XYKPool")
    ELSE LiquiditySourceId(TokenPairId(dex_id, y, x), "XYKPool")

\* the pools the instruction i works on
Operated(i, w) ==
    IF i.op \in SwapInstructions
    THEN {HopPool(i.dex_id, i.path[k], i.path[k + 1], w) : k \in 1..(Len(i.path) - 1)}
    ELSE IF i.op \in PoolInstructions THEN {i.liquidity_source_id}
    ELSE {}

Mirrors(id, w) ==
    /\ PoolData(id, w).base_asset_reserve =
           Balance(w, PoolData(id, w).storage_account_id, id.token_pair_id.base_asset_id)
    /\ PoolData(id, w).target_asset_reserve =
           Balance(w, PoolData(id, w).storage_account_id, id.token_pair_id.target_asset_id)

----------------------------------------------------------------------------
(* C1 *)

----------------------------------------------------------------------------
(* C2 *)

\* C2: in every reachable state each pool's pool_token_total_supply equals
\* the sum of the pool token's balances over all accounts, the
\* MINIMUM_LIQUIDITY units locked by the first mint counted as held by the
\* pool itself.
C2_SupplyAccounting ==
    \A id \in Pools(wsv) :
        LET data == PoolData(id, wsv)
            held == Circulating(data.pool_token_asset_definition_id, wsv)
        IN  \/ data.pool_token_total_supply = Zero /\ held = Zero
            \/ data.pool_token_total_supply = Add(held, MINIMUM_LIQUIDITY)

----------------------------------------------------------------------------
(* C3 *)

\* C3: whenever AddLiquidityToXYKPool, RemoveLiquidityFromXYKPool,
\* SwapExactTokensForTokensOnXYKPool or SwapTokensForExactTokensOnXYKPool
\* returns an error, all balances and all pool states are what they were
\* before the instruction started.
C3_AllOrNothing ==
    (last.instruction.op \in PoolInstructions /\ last.tag = "Err")
        => (wsv.assets = pre.assets /\ wsv.dex = pre.dex)

----------------------------------------------------------------------------
(* C4 *)

\* C4: a transaction's instructions are applied atomically by validate and by
\* proceed: either every instruction takes effect or none does, and no
\* instruction runs on a world state view that carries the partial effects of
\* an earlier instruction of the same transaction that failed.
C4_TransactionAtomic ==
    last.instruction.op \in {"validate", "proceed"}
        => /\ \/ /\ Len(last.trace) = Len(last.instruction.payload.instructions)
                 /\ \A k \in DOMAIN last.trace : last.trace[k].tag = "Ok"
              \/ wsv = pre
           /\ \A j \in DOMAIN last.trace :
                  (last.trace[j].tag # "Ok" /\ last.trace[j].changed)
                      => j = Len(last.trace)

----------------------------------------------------------------------------
(* C5 *)

TopologyInstructions ==
    {"InitializeDEX", "CreateTokenPair", "RemoveTokenPair", "CreateLiquiditySource",
     "SetFeeOnXYKPool", "SetProtocolFeePartOnXYKPool"}

\* the domain of the DEX a topology instruction is aimed at
TargetDomain(i) ==
    CASE i.op = "InitializeDEX" -> i.domain_name
      [] i.op = "CreateTokenPair" -> i.dex_id.domain_name
      [] i.op = "RemoveTokenPair" -> i.token_pair_id.dex_id.domain_name
      [] i.op = "CreateLiquiditySource" ->
             i.liquidity_source.id.token_pair_id.dex_id.domain_name
      [] OTHER -> i.liquidity_source_id.token_pair_id.dex_id.domain_name

Unauthorized ==
    /\ last.instruction.op \in TopologyInstructions
    /\ ~HasPermission(last.authority, ManageDEX(TargetDomain(last.instruction)), pre)

\* C5: InitializeDEX, CreateTokenPair, RemoveTokenPair, CreateLiquiditySource,
\* SetFeeOnXYKPool and SetProtocolFeePartOnXYKPool executed by an authority
\* without the ManageDEX permission for the target DEX's domain return the
\* permission error and leave the DEX, its token pairs, its liquidity sources
\* and the pool parameters unchanged.
C5_ManagerOnlyTopology ==
    Unauthorized => /\ last.tag = "Err"
                    /\ last.e = "Error: Permission not found."
                    /\ wsv = pre

\* an account without the permission tried to set the fee of an existing pool
\* to a valid value
C5_Witness ==
    /\ Unauthorized
    /\ last.instruction.op = "SetFeeOnXYKPool"
    /\ last.instruction.fee <= MAX_BASIS_POINTS
    /\ PoolDOT \in Pools(pre)
    /\ last.tag = "Err"

----------------------------------------------------------------------------
(* C6 *)

\* the product of the cached reserves of a pool
K(id, w) == Mul(PoolData(id, w).base_asset_reserve, PoolData(id, w).target_asset_reserve)

SinglePoolSwap ==
    /\ last.instruction.op \in SwapInstructions
    /\ last.tag = "Ok"
    /\ Len(last.instruction.path) = 2

SwappedPool ==
    HopPool(last.instruction.dex_id, last.instruction.path[1],
            last.instruction.path[2], pre)

\* the storage account of the swapped pool holds more of the input asset
\* than before the swap
InputReceived ==
    Less(Balance(pre, PoolData(SwappedPool, pre).storage_account_id,
                 last.instruction.path[1]),
         Balance(wsv, PoolData(SwappedPool, pre).storage_account_id,
                 last.instruction.path[1]))

\* C6: for every successful single-pool swap the product of the pool's
\* reserves after the swap is at least the product before the swap, and
\* strictly greater when a nonzero input amount was received.
C6_KMonotonic ==
    SinglePoolSwap => /\ Leq(K(SwappedPool, pre), K(SwappedPool, wsv))
                      /\ InputReceived => Less(K(SwappedPool, pre), K(SwappedPool, wsv))

\* a successful single-pool swap that received its input
C6_Witness == SinglePoolSwap /\ InputReceived /\ K(SwappedPool, pre) # Zero

----------------------------------------------------------------------------
(* C7 *)

\* the last instruction is an AddLiquidityToXYKPool on an empty pool by a
\* depositor who holds the desired amounts and may transfer them
FirstDeposit ==
    /\ last.instruction.op = "AddLiquidityToXYKPool"
    /\ last.instruction.liquidity_source_id \in Pools(pre)
    /\ LET id   == last.instruction.liquidity_source_id
           data == PoolData(id, pre)
           base == id.token_pair_id.base_asset_id
           target == id.token_pair_id.target_asset_id
       IN  /\ data.pool_token_total_supply = Zero
           /\ data.base_asset_reserve = Zero /\ data.target_asset_reserve = Zero
           /\ Balance(pre, data.storage_account_id, base) = Zero
           /\ Balance(pre, data.storage_account_id, target) = Zero
           /\ Leq(last.instruction.amount_a_desired, Balance(pre, last.authority, base))
           /\ Leq(last.instruction.amount_b_desired, Balance(pre, last.authority, target))
           /\ Leq(last.instruction.amount_a_min, last.instruction.amount_a_desired)
           /\ Leq(last.instruction.amount_b_min, last.instruction.amount_b_desired)
           /\ HasPermission(last.authority, TransferAssetPermission(base), pre)
           /\ HasPermission(last.authority, TransferAssetPermission(target), pre)

\* C7: AddLiquidityToXYKPool on a pool with total supply 0 whose deposited
\* amounts satisfy a*b <= MINIMUM_LIQUIDITY^2 returns the error
\* 'insufficient liquidity minted' and mints no pool tokens to anyone.
C7_FirstMintBoundary ==
    (/\ FirstDeposit
     /\ Leq(Mul(last.instruction.amount_a_desired, last.instruction.amount_b_desired),
            Mul(MINIMUM_LIQUIDITY, MINIMUM_LIQUIDITY)))
        => /\ last.tag = "Err"
           /\ last.e = "insufficient liquidity minted"
           /\ Circulating(PoolData(last.instruction.liquidity_source_id, pre)
                              .pool_token_asset_definition_id, wsv) = Zero

----------------------------------------------------------------------------
(* C8 *)

\* what the account lost, respectively gained, of an asset in the last step
Spent(account_id, asset_definition_id) ==
    IF Leq(Balance(wsv, account_id, asset_definition_id),
           Balance(pre, account_id, asset_definition_id))
    THEN Sub(Balance(pre, account_id, asset_definition_id),
             Balance(wsv, account_id, asset_definition_id))
    ELSE Zero

Gained(account_id, asset_definition_id) ==
    IF Leq(Balance(pre, account_id, asset_definition_id),
           Balance(wsv, account_id, asset_definition_id))
    THEN Sub(Balance(wsv, account_id, asset_definition_id),
             Balance(pre, account_id, asset_definition_id))
    ELSE Zero

\* q is the truncated quotient x / d
IsQuotient(q, x, d) == Leq(Mul(q, d), x) /\ Less(x, Mul(Add(q, One), d))

\* s is the integer square root of x
IsRoot(s, x) == Leq(Mul(s, s), x) /\ Less(x, Mul(Add(s, One), Add(s, One)))

\* m is the smaller of the truncated quotients x1 / d1 and x2 / d2
IsMinQuotient(m, x1, d1, x2, d2) ==
    /\ Leq(Mul(m, d1), x1)
    /\ Leq(Mul(m, d2), x2)
    /\ Less(x1, Mul(Add(m, One), d1)) \/ Less(x2, Mul(Add(m, One), d2))

SuccessfulDeposit == last.instruction.op = "AddLiquidityToXYKPool" /\ last.tag = "Ok"

\* C8: a successful AddLiquidityToXYKPool that deposits (a, b) mints
\* isqrt(a*b) - 1000 pool tokens to the recipient and makes the total supply
\* isqrt(a*b) when the total supply was 0, and otherwise mints
\* min(a*T/rA, b*T/rB) and grows the total supply by that amount; the
\* reserves become the storage balances.
C8_LiquidityMinted ==
    SuccessfulDeposit =>
        \A id \in {last.instruction.liquidity_source_id} :
        \A old \in {PoolData(id, pre)}, new \in {PoolData(id, wsv)} :
        \A a \in {Spent(last.authority, id.token_pair_id.base_asset_id)},
           b \in {Spent(last.authority, id.token_pair_id.target_asset_id)},
           minted \in {Gained(last.authority, old.pool_token_asset_definition_id)} :
            /\ Mirrors(id, wsv)
            /\ IF old.pool_token_total_supply = Zero
               THEN /\ IsRoot(Add(minted, MINIMUM_LIQUIDITY), Mul(a, b))
                    /\ new.pool_token_total_supply = Add(minted, MINIMUM_LIQUIDITY)
               ELSE /\ IsMinQuotient(minted,
                                     Mul(a, old.pool_token_total_supply),
                                     old.base_asset_reserve,
                                     Mul(b, old.pool_token_total_supply),
                                     old.target_asset_reserve)
                    /\ new.pool_token_total_supply =
                           Add(old.pool_token_total_supply, minted)

----------------------------------------------------------------------------
(* C9 *)

\* the last instruction is a RemoveLiquidityFromXYKPool of liquidity that the
\* owner holds and may transfer, on a pool that has liquidity
Removal ==
    /\ last.instruction.op = "RemoveLiquidityFromXYKPool"
    /\ last.instruction.liquidity_source_id \in Pools(pre)
    /\ LET data == PoolData(last.instruction.liquidity_source_id, pre)
       IN  /\ data.pool_token_total_supply # Zero
           /\ Leq(last.instruction.liquidity,
                  Balance(pre, last.authority, data.pool_token_asset_definition_id))
           /\ HasPermission(last.authority,
                  TransferAssetPermission(data.pool_token_asset_definition_id), pre)

\* C9: a successful RemoveLiquidityFromXYKPool burning L pool tokens pays the
\* owner a = L*Ba/T and b = L*Bb/T (truncating; Ba, Bb the storage balances
\* and T the total supply before the burn) and decreases the owner's pool-token
\* balance and the total supply by L; it fails with 'insufficient liquidity
\* burned' if a or b is 0.
C9_LiquidityBurned ==
    Removal =>
        \A id \in {last.instruction.liquidity_source_id} :
        \A old \in {PoolData(id, pre)}, L \in {last.instruction.liquidity} :
        \A xa \in {Mul(L, Balance(pre, old.storage_account_id,
                                  id.token_pair_id.base_asset_id))},
           xb \in {Mul(L, Balance(pre, old.storage_account_id,
                                  id.token_pair_id.target_asset_id))},
           T \in {old.pool_token_total_supply} :
            /\ last.tag = "Ok" =>
                   /\ IsQuotient(Gained(last.authority, id.token_pair_id.base_asset_id),
                                 xa, T)
                   /\ IsQuotient(Gained(last.authority, id.token_pair_id.target_asset_id),
                                 xb, T)
                   /\ Spent(last.authority, old.pool_token_asset_definition_id) = L
                   /\ T = Add(PoolData(id, wsv).pool_token_total_supply, L)
            /\ (Less(xa, T) \/ Less(xb, T)) =>
                   /\ last.tag = "Err"
                   /\ last.e \in {"insufficient liquidity burned",
                                  "insufficient liqudity burned"}

----------------------------------------------------------------------------
(* C10 *)

ExactIn == last.instruction.op = "SwapExactTokensForTokensOnXYKPool"

LastAsset == last.instruction.path[Len(last.instruction.path)]

\* C10: SwapExactTokensForTokensOnXYKPool fails with 'insufficient output
\* amount' before any transfer when the quoted final amount is below the
\* minimum; when it succeeds the authority's balance of path[0] decreases by
\* exactly the input amount and the recipient's balance of the last path asset
\* increases by exactly the quoted final amount, which is at least the minimum.
C10_ExactInSlippage ==
    ExactIn =>
        /\ (/\ last.amounts # <<>>
            /\ Less(last.amounts[Len(last.amounts)], last.instruction.amount_out_min))
               => /\ last.tag = "Err"
                  /\ last.e = "insufficient output amount"
                  /\ wsv = pre
        /\ last.tag = "Ok"
               => /\ last.amounts # <<>>
                  /\ Balance(pre, last.authority, last.instruction.path[1]) =
                         Add(Balance(wsv, last.authority, last.instruction.path[1]),
                             last.instruction.amount_in)
                  /\ Balance(wsv, last.authority, LastAsset) =
                         Add(Balance(pre, last.authority, LastAsset),
                             last.amounts[Len(last.amounts)])
                  /\ Leq(last.instruction.amount_out_min,
                         last.amounts[Len(last.amounts)])

\* the seed swap: 2000 XOR on reserves (5000, 7000) pays 1995 DOT and leaves
\* the pool at (5916, 7000, 5005, 0)
C10_Witness ==
    /\ ExactIn
    /\ last.tag = "Ok"
    /\ last.instruction.amount_in = N(2000)
    /\ PoolData(PoolDOT, pre).base_asset_reserve = N(5000)
    /\ PoolData(PoolDOT, pre).target_asset_reserve = N(7000)
    /\ Gained(last.authority, DOT) = N(1995)
    /\ PoolData(PoolDOT, wsv).pool_token_total_supply = N(5916)
    /\ PoolData(PoolDOT, wsv).base_asset_reserve = N(7000)
    /\ PoolData(PoolDOT, wsv).target_asset_reserve = N(5005)
    /\ PoolData(PoolDOT, wsv).k_last = Zero

----------------------------------------------------------------------------
(* C11 *)

ExactOut == last.instruction.op = "SwapTokensForExactTokensOnXYKPool"

\* the exact-out swap asks for 1995 of the target asset of a pool with
\* reserves (5000, 7000)
ExactOutSeed ==
    /\ ExactOut
    /\ last.instruction.path = <<XOR, DOT>>
    /\ last.instruction.amount_out = N(1995)
    /\ PoolData(PoolDOT, pre).base_asset_reserve = N(5000)
    /\ PoolData(PoolDOT, pre).target_asset_reserve = N(7000)

\* C11: SwapTokensForExactTokensOnXYKPool fails with 'excessive input amount'
\* before any transfer when the quoted first amount exceeds the maximum; when
\* it succeeds the recipient's balance of the last path asset grows by exactly
\* the requested amount and the authority's balance of path[0] shrinks by
\* exactly the quoted first amount, which is at most the maximum.  On the seed
\* vector the quoted input is 2000 and the state reached is the state the
\* exact-in swap of 2000 reaches.
C11_ExactOutBound ==
    ExactOut =>
        /\ (/\ last.amounts # <<>>
            /\ Less(last.instruction.amount_in_max, last.amounts[1]))
               => /\ last.tag = "Err"
                  /\ last.e = "excessive input amount"
                  /\ wsv = pre
        /\ last.tag = "Ok"
               => /\ last.amounts # <<>>
                  /\ Balance(wsv, last.authority, LastAsset) =
                         Add(Balance(pre, last.authority, LastAsset),
                             last.instruction.amount_out)
                  /\ Balance(pre, last.authority, last.instruction.path[1]) =
                         Add(Balance(wsv, last.authority, last.instruction.path[1]),
                             last.amounts[1])
                  /\ Leq(last.amounts[1], last.instruction.amount_in_max)
        /\ (ExactOutSeed /\ last.tag = "Ok")
               => /\ last.amounts[1] = N(2000)
                  /\ wsv = execute(SwapExactTokensForTokensOnXYKPool(
                                       last.instruction.dex_id, last.instruction.path,
                                       N(2000), Zero),
                                   last.authority, pre).w

\* the seed swap succeeded
C11_Witness == ExactOutSeed /\ last.tag = "Ok" /\ last.amounts = <<N(2000), N(1995)>>

----------------------------------------------------------------------------
(* C12 *)

\* a successful swap over a path of three or more assets
MultiHop ==
    /\ last.instruction.op \in SwapInstructions
    /\ last.tag = "Ok"
    /\ Len(last.instruction.path) >= 3

\* the storage account of the pool of hop k of the last instruction
HopStorage(k) ==
    PoolData(HopPool(last.instruction.dex_id, last.instruction.path[k],
                     last.instruction.path[k + 1], pre), pre).storage_account_id

HopStorages == {HopStorage(k) : k \in 1..(Len(last.instruction.path) - 1)}

\* the swap of 2000 KSM along [KSM, XOR, DOT] on pools (6500, 4333), (6000, 3000)
MultiHopSeed ==
    /\ MultiHop
    /\ last.instruction.op = "SwapExactTokensForTokensOnXYKPool"
    /\ last.instruction.path = <<KSM, XOR, DOT>>
    /\ last.instruction.amount_in = N(2000)
    /\ PoolData(PoolDOT, pre).base_asset_reserve = N(6500)
    /\ PoolData(PoolDOT, pre).target_asset_reserve = N(4333)
    /\ PoolData(PoolKSM, pre).base_asset_reserve = N(6000)
    /\ PoolData(PoolKSM, pre).target_asset_reserve = N(3000)

\* User B burns 407 pool tokens right after the seed swap
MultiHopSeedBurn ==
    /\ last.instruction.op = "RemoveLiquidityFromXYKPool"
    /\ last.instruction.liquidity = N(407)
    /\ last.authority = UserB
    /\ last.tag = "Ok"
    /\ PoolData(PoolDOT, pre).pool_token_total_supply = N(5305)
    /\ PoolData(PoolDOT, pre).base_asset_reserve = N(8895)
    /\ PoolData(PoolDOT, pre).target_asset_reserve = N(3169)
    /\ PoolData(PoolKSM, pre).base_asset_reserve = N(3605)

\* C12: in a successful swap over a path of three or more assets the output
\* of every hop but the last is credited to the storage account of the next
\* hop's pool and only the output of the last hop is credited to the
\* recipient: the authority's balances of the intermediate path assets are
\* unchanged, no account other than the authority and the storage accounts of
\* the path's pools changes, and every pool on the path ends with reserves
\* equal to the balances of its storage account.  On the seed vector 2000 KSM
\* deliver 1164 DOT and, after User B burns 407 pool tokens, the pools are
\* (4898, 8213, 2926, 0) and (4242, 3605, 5000, 0).
C12_NoIntermediateCustody ==
    /\ MultiHop =>
           /\ \A k \in 2..(Len(last.instruction.path) - 1) :
                  /\ Balance(wsv, last.authority, last.instruction.path[k]) =
                         Balance(pre, last.authority, last.instruction.path[k])
                  /\ Balance(wsv, HopStorage(k), last.instruction.path[k]) =
                         Add(Balance(pre, HopStorage(k), last.instruction.path[k]),
                             last.amounts[k])
                  /\ Balance(pre, HopStorage(k - 1), last.instruction.path[k]) =
                         Add(Balance(wsv, HopStorage(k - 1), last.instruction.path[k]),
                             last.amounts[k])
           /\ Balance(wsv, last.authority, LastAsset) =
                  Add(Balance(pre, last.authority, LastAsset),
                      last.amounts[Len(last.amounts)])
           /\ \A a \in DOMAIN wsv.assets \cup DOMAIN pre.assets :
                  (/\ a.account_id \notin HopStorages
                   /\ ~(/\ a.account_id = last.authority
                        /\ a.definition_id \in {last.instruction.path[1], LastAsset}))
                      => Balance(wsv, a.account_id, a.definition_id) =
                             Balance(pre, a.account_id, a.definition_id)
           /\ \A id \in Operated(last.instruction, pre) : Mirrors(id, wsv)
    /\ MultiHopSeed =>
           /\ last.amounts = <<N(2000), N(2395), N(1164)>>
           /\ Balance(wsv, UserC, DOT) = N(1164)
    /\ MultiHopSeedBurn =>
           /\ PoolData(PoolDOT, wsv).pool_token_total_supply = N(4898)
           /\ PoolData(PoolDOT, wsv).base_asset_reserve = N(8213)
           /\ PoolData(PoolDOT, wsv).target_asset_reserve = N(2926)
           /\ PoolData(PoolDOT, wsv).k_last = Zero
           /\ PoolData(PoolKSM, wsv).pool_token_total_supply = N(4242)
           /\ PoolData(PoolKSM, wsv).base_asset_reserve = N(3605)
           /\ PoolData(PoolKSM, wsv).target_asset_reserve = N(5000)
           /\ PoolData(PoolKSM, wsv).k_last = Zero

\* the seed swap has delivered and User B has burned
C12_Witness == MultiHopSeedBurn /\ Balance(wsv, UserC, DOT) = N(1164)

\* a successful swap over three assets by the exact-out instruction
C12_WitnessExactOut ==
    MultiHop /\ last.instruction.op = "SwapTokensForExactTokensOnXYKPool"

----------------------------------------------------------------------------
(* C13 *)

\* the DEX of the last instruction has an XYK pool for the pair (x, y), one of
\* which is its base asset
HasPool(dex_id, x, y, w) ==
    /\ dex_id.domain_name \in w.domain_names
    /\ w.dex[dex_id.domain_name] # None
    /\ (x = w.dex[dex_id.domain_name][1].base_asset_id)
           # (y = w.dex[dex_id.domain_name][1].base_asset_id)
    /\ HopPool(dex_id, x, y, w) \in Pools(w)

\* the path of the last instruction is short, or one of its hops is not a
\* pair of the base asset and another asset with an XYK pool
InvalidPath ==
    \/ Len(last.instruction.path) < 2
    \/ \E k \in 1..(Len(last.instruction.path) - 1) :
           ~HasPool(last.instruction.dex_id, last.instruction.path[k],
                    last.instruction.path[k + 1], pre)

\* C13: a swap instruction, exact-in or exact-out, whose path has fewer than
\* two assets, or has an adjacent pair in which not exactly one asset is the
\* base asset of the DEX, or has a pair without XYK pool in the DEX, returns
\* the error of its amount quoting and leaves the world state view as it was.
C13_PathValidation ==
    (last.instruction.op \in SwapInstructions /\ InvalidPath)
        => /\ last.tag = "Err"
           /\ last.amounts = <<>>
           /\ Quoted(last.instruction, pre).tag = "Err"
           /\ last.e = Quoted(last.instruction, pre).e
           /\ wsv = pre

\* a path whose second hop trades two assets neither of which is the base
\* asset was rejected on pools that hold liquidity
C13_Witness ==
    /\ last.instruction.op = "SwapExactTokensForTokensOnXYKPool"
    /\ last.instruction.path = <<XOR, DOT, KSM>>
    /\ PoolData(PoolDOT, pre).base_asset_reserve # Zero
    /\ last.tag = "Err"
    /\ last.e = "neither of tokens is base asset"

----------------------------------------------------------------------------
(* C14 *)

InitializeDEXSubmitted == last.instruction.op = "InitializeDEX"

\* the domain of the last InitializeDEX had a DEX when the instruction started
AlreadyInitialized ==
    /\ InitializeDEXSubmitted
    /\ last.instruction.domain_name \in pre.domain_names
    /\ pre.dex[last.instruction.domain_name] # None

OwnerMissing ==
    /\ InitializeDEXSubmitted
    /\ last.instruction.dex.owner_account_id \notin pre.accounts

\* C14, as stated: InitializeDEX on a domain that already has a DEX fails
\* with 'dex is already initialized for domain' and leaves the existing DEX,
\* its owner, base asset, token pairs and pools, unchanged; InitializeDEX
\* also fails when the owner account of the DEX does not exist.
C14_OneDEXPerDomain ==
    /\ AlreadyInitialized
           => /\ last.tag = "Err"
              /\ last.e = "dex is already initialized for domain"
              /\ wsv = pre
    /\ OwnerMissing => last.tag = "Err"

\* C14, amended: InitializeDEX on a domain that already has a DEX fails and
\* leaves the existing DEX, its owner, base asset, token pairs and pools,
\* unchanged; the error is 'dex is already initialized for domain' when the
\* authority may manage the DEX of the domain and the owner account of the
\* new DEX exists, otherwise the permission error or 'account not found'
\* comes first.  InitializeDEX also fails, changing nothing, when the owner
\* account of the DEX does not exist.
C14_ReinitializationFails ==
    /\ AlreadyInitialized
           => /\ last.tag = "Err"
              /\ wsv = pre
              /\ last.e = IF ~HasPermission(last.authority,
                                            ManageDEX(last.instruction.domain_name), pre)
                          THEN "Error: Permission not found."
                          ELSE IF OwnerMissing THEN "account not found"
                          ELSE "dex is already initialized for domain"
    /\ OwnerMissing => last.tag = "Err" /\ wsv = pre

\* the manager of a DEX with token pairs and pools initialised it once more
C14_Witness ==
    /\ AlreadyInitialized
    /\ last.authority = DexOwner
    /\ ~OwnerMissing
    /\ PoolDOT \in Pools(pre)
    /\ last.e = "dex is already initialized for domain"

----------------------------------------------------------------------------
(* C15 *)

\* C15: the base asset of every registered DEX is a registered asset
\* definition and its owner account exists; in particular InitializeDEX with
\* an unregistered base asset is rejected.
C15_DEXWellFormed ==
    /\ \A d \in DOMAIN wsv.dex :
           wsv.dex[d] # None
               => /\ wsv.dex[d][1].base_asset_id \in wsv.asset_definitions
                  /\ wsv.dex[d][1].owner_account_id \in wsv.accounts
    /\ (/\ InitializeDEXSubmitted
        /\ last.instruction.dex.base_asset_id \notin pre.asset_definitions)
           => last.tag = "Err" /\ wsv = pre

----------------------------------------------------------------------------
(* C16 *)

CreateTokenPairSubmitted == last.instruction.op = "CreateTokenPair"

\* the token pairs of the DEX of domain d in w; none when d has no DEX
TokenPairs(d, w) == IF w.dex[d] = None THEN <<>> ELSE w.dex[d][1].token_pairs

\* C16: CreateTokenPair succeeds only if both asset definitions exist, the
\* base asset of the pair is the base asset of the DEX, base and target
\* differ and the id of the pair is not yet present, and then stores exactly
\* that pair; every stored token pair has the base asset of its DEX as base
\* and a different target; a rejected CreateTokenPair leaves the pair map
\* unchanged.
C16_TokenPairWellFormed ==
    /\ (CreateTokenPairSubmitted /\ last.tag = "Ok")
           => /\ last.instruction.token_pair.id.base_asset_id \in pre.asset_definitions
              /\ last.instruction.token_pair.id.target_asset_id \in pre.asset_definitions
              /\ pre.dex[last.instruction.dex_id.domain_name] # None
              /\ last.instruction.token_pair.id.base_asset_id =
                     pre.dex[last.instruction.dex_id.domain_name][1].base_asset_id
              /\ last.instruction.token_pair.id.base_asset_id #
                     last.instruction.token_pair.id.target_asset_id
              /\ last.instruction.token_pair.id \notin
                     DOMAIN TokenPairs(last.instruction.dex_id.domain_name, pre)
              /\ TokenPairs(last.instruction.dex_id.domain_name, wsv) =
                     Put(TokenPairs(last.instruction.dex_id.domain_name, pre),
                         last.instruction.token_pair.id, last.instruction.token_pair)
    /\ \A d \in DOMAIN wsv.dex : \A t \in DOMAIN TokenPairs(d, wsv) :
           /\ t.base_asset_id = wsv.dex[d][1].base_asset_id
           /\ t.target_asset_id # t.base_asset_id
    /\ (CreateTokenPairSubmitted /\ last.tag # "Ok")
           => \A d \in DOMAIN wsv.dex : TokenPairs(d, wsv) = TokenPairs(d, pre)

\* the manager registered the second token pair of the DEX
C16_Witness ==
    /\ CreateTokenPairSubmitted
    /\ last.tag = "Ok"
    /\ last.authority = DexOwner
    /\ DOMAIN TokenPairs(Soramitsu, pre) = {PairDOT}
    /\ DOMAIN TokenPairs(Soramitsu, wsv) = {PairDOT, PairKSM}

----------------------------------------------------------------------------
(* C17 *)

CreateLiquiditySourceSubmitted == last.instruction.op = "CreateLiquiditySource"

\* the token pair of the liquidity source of the last instruction is
\* registered in w
PairRegistered(w) ==
    /\ last.instruction.liquidity_source.id.token_pair_id.dex_id.domain_name
           \in w.domain_names
    /\ last.instruction.liquidity_source.id.token_pair_id \in
           DOMAIN TokenPairs(
               last.instruction.liquidity_source.id.token_pair_id.dex_id.domain_name, w)

\* C17: CreateLiquiditySource fails when the token pair does not exist or
\* already holds a liquidity source of the same kind, and then the world
\* state view, the existing pool included, is unchanged; every token pair
\* holds its liquidity sources under their own ids, at most one per kind.
C17_OneSourcePerKind ==
    /\ (/\ CreateLiquiditySourceSubmitted
        /\ \/ ~PairRegistered(pre)
           \/ last.instruction.liquidity_source.id \in Pools(pre))
           => last.tag = "Err" /\ wsv = pre
    /\ \A d \in DOMAIN wsv.dex : \A t \in DOMAIN TokenPairs(d, wsv) :
           \A l \in DOMAIN TokenPairs(d, wsv)[t].liquidity_sources :
               /\ l.token_pair_id = t
               /\ TokenPairs(d, wsv)[t].liquidity_sources[l].id = l
               /\ \A m \in DOMAIN TokenPairs(d, wsv)[t].liquidity_sources :
                      m.liquidity_source_type = l.liquidity_source_type => m = l

\* the manager created the pool of a pair a second time after the fee of the
\* pool had been changed
C17_Witness ==
    /\ CreateLiquiditySourceSubmitted
    /\ last.authority = DexOwner
    /\ last.instruction.liquidity_source.id = PoolDOT
    /\ PoolDOT \in Pools(pre)
    /\ PoolData(PoolDOT, pre).fee = 50
    /\ last.e = "liquidity source already exists for token pair"

----------------------------------------------------------------------------
(* C18 *)

CreateXYKPoolSubmitted == last.instruction.op = "CreateXYKPool"

\* the pool token, the storage account and the pool of the token pair of the
\* last instruction, as far as w holds them
Created(w) ==
    [pool_token |-> PoolTokenId(last.instruction.token_pair_id) \in w.asset_definitions,
     storage_account |-> StorageAccountId(last.instruction.token_pair_id) \in w.accounts,
     pool |-> LiquiditySourceId(last.instruction.token_pair_id, "XYKPool") \in Pools(w)]

----------------------------------------------------------------------------
(* C19 *)

SetFeeSubmitted == last.instruction.op = "SetFeeOnXYKPool"

SetProtocolFeePartSubmitted == last.instruction.op = "SetProtocolFeePartOnXYKPool"

\* the last instruction is a setter on a pool that exists, submitted by an
\* authority that may manage the DEX of the pool
ManagerSets ==
    /\ SetFeeSubmitted \/ SetProtocolFeePartSubmitted
    /\ last.instruction.liquidity_source_id \in Pools(pre)
    /\ HasPermission(last.authority,
                     ManageDEX(last.instruction.liquidity_source_id.token_pair_id
                                   .dex_id.domain_name), pre)

----------------------------------------------------------------------------
(* C20 *)

\* C20: every successful AddLiquidityToXYKPool(aD, bD, aMin, bMin) deposits
\* amounts (a, b) with aMin <= a <= aD and bMin <= b <= bD, whether the pool
\* was empty or not.
C20_DepositBounds ==
    SuccessfulDeposit =>
        /\ Leq(last.instruction.amount_a_min,
               Spent(last.authority,
                     last.instruction.liquidity_source_id.token_pair_id.base_asset_id))
        /\ Leq(Spent(last.authority,
                     last.instruction.liquidity_source_id.token_pair_id.base_asset_id),
               last.instruction.amount_a_desired)
        /\ Leq(last.instruction.amount_b_min,
               Spent(last.authority,
                     last.instruction.liquidity_source_id.token_pair_id.target_asset_id))
        /\ Leq(Spent(last.authority,
                     last.instruction.liquidity_source_id.token_pair_id.target_asset_id),
               last.instruction.amount_b_desired)

----------------------------------------------------------------------------
(* C21 *)

AmountOutApplied == last.instruction.op = "xyk_pool_get_amount_out"

\* C21: xyk_pool_get_amount_out(aIn, rIn, rOut) returns exactly
\* floor(aIn * 997 * rOut / (rIn * 1000 + aIn * 997)) for all u32 arguments
\* with aIn > 0, rIn > 0 and rOut > 0, a value below rOut; it fails with
\* 'insufficient input amount' when aIn = 0 and with 'insufficient liquidity'
\* when aIn > 0 and a reserve is 0.
C21_AmountOutExact ==
    AmountOutApplied =>
        LET i == last.instruction
        IN  IF i.amount_in = Zero
            THEN last.tag = "Err" /\ last.e = "insufficient input amount"
            ELSE IF i.reserve_in = Zero \/ i.reserve_out = Zero
            THEN last.tag = "Err" /\ last.e = "insufficient liquidity"
            ELSE /\ last.tag = "Ok"
                 /\ IsQuotient(last.amounts[1],
                               Mul(MulSmall(i.amount_in, 997), i.reserve_out),
                               Add(MulSmall(i.reserve_in, 1000), MulSmall(i.amount_in, 997)))
                 /\ Less(last.amounts[1], i.reserve_out)

\* the largest arguments: u32::MAX against reserves of u32::MAX yields
\* 2144257582
C21_Witness ==
    /\ AmountOutApplied
    /\ last.instruction.amount_in = U32Max
    /\ last.instruction.reserve_in = U32Max
    /\ last.instruction.reserve_out = U32Max
    /\ last.tag = "Ok"
    /\ last.amounts = <<N(2144257582)>>

----------------------------------------------------------------------------
(* C22 *)

AmountInApplied == last.instruction.op = "xyk_pool_get_amount_in"

\* C22: xyk_pool_get_amount_in(aOut, rIn, rOut) returns exactly
\* floor(rIn * aOut * 1000 / ((rOut - aOut) * 997)) + 1 for all u32 arguments
\* with 0 < aOut < rOut and rIn > 0, the returned u32 being that value with
\* nothing cut off; it fails with 'insufficient output amount' when
\* aOut = 0, with 'insufficient liquidity' when a reserve is 0 and with
\* "can't withdraw full reserve" when aOut = rOut.
C22_AmountInExact ==
    AmountInApplied =>
        LET i == last.instruction
        IN  IF i.amount_out = Zero
            THEN last.tag = "Err" /\ last.e = "insufficient output amount"
            ELSE IF i.reserve_in = Zero \/ i.reserve_out = Zero
            THEN last.tag = "Err" /\ last.e = "insufficient liquidity"
            ELSE IF i.amount_out = i.reserve_out
            THEN last.tag = "Err" /\ last.e = "can't withdraw full reserve"
            ELSE Less(i.amount_out, i.reserve_out) =>
                    /\ last.tag = "Ok"
                    /\ last.amounts[1] # Zero
                    /\ IsQuotient(Sub(last.amounts[1], One),
                                  MulSmall(Mul(i.reserve_in, i.amount_out), 1000),
                                  MulSmall(Sub(i.reserve_out, i.amount_out), 997))

----------------------------------------------------------------------------
(* C23 *)

\* C23: for all rIn > 0 and 0 < aOut < rOut, paying the quoted input buys at
\* least the requested output:
\* xyk_pool_get_amount_out(xyk_pool_get_amount_in(aOut, rIn, rOut), rIn, rOut)
\* is at least aOut.
C23_InputBuysOutput ==
    (/\ AmountInApplied
     /\ last.instruction.amount_out # Zero
     /\ last.instruction.reserve_in # Zero
     /\ Less(last.instruction.amount_out, last.instruction.reserve_out)) =>
        /\ last.tag = "Ok"
        /\ LET back == xyk_pool_get_amount_out(last.amounts[1], last.instruction.reserve_in,
                                               last.instruction.reserve_out)
           IN  back.tag = "Ok" /\ Leq(last.instruction.amount_out, back.v)

----------------------------------------------------------------------------
(* C24 *)

\* the input quoted for the output that the applied xyk_pool_get_amount_out
\* returned, against the same reserves
QuotedBack ==
    xyk_pool_get_amount_in(last.amounts[1], last.instruction.reserve_in,
                           last.instruction.reserve_out)

PositiveArguments ==
    /\ AmountOutApplied
    /\ last.instruction.amount_in # Zero
    /\ last.instruction.reserve_in # Zero
    /\ last.instruction.reserve_out # Zero

\* C24 as stated: for any positive aIn and positive reserves,
\* xyk_pool_get_amount_in(xyk_pool_get_amount_out(aIn, rIn, rOut), rIn, rOut)
\* is defined and is at least aIn.
C24_OutputCostsInput ==
    PositiveArguments =>
        /\ last.tag = "Ok"
        /\ QuotedBack.tag = "Ok"
        /\ Leq(last.instruction.amount_in, QuotedBack.v)

\* C24, amended: for any positive aIn and positive reserves
\* xyk_pool_get_amount_out succeeds; when its result is 0 the input quoted
\* for it is undefined ('insufficient output amount'), and when its result is
\* positive the input quoted for it is defined and at most aIn + 1 (the
\* output was rounded down, so buying it may cost less than aIn).
C24_OutputCostsNoMore ==
    PositiveArguments =>
        /\ last.tag = "Ok"
        /\ IF last.amounts[1] = Zero
           THEN QuotedBack.tag = "Err" /\ QuotedBack.e = "insufficient output amount"
           ELSE /\ QuotedBack.tag = "Ok"
                /\ Leq(QuotedBack.v, Add(last.instruction.amount_in, One))

\* 2147483647 in against reserves (500000, 3) buys 2, and 2 cost less
C24_Witness ==
    /\ PositiveArguments
    /\ last.amounts # <<Zero>>
    /\ QuotedBack.tag = "Ok"
    /\ Less(QuotedBack.v, last.instruction.amount_in)

\* 1 in against reserves (7000, 5000) buys nothing
C24_WitnessNothingBought ==
    /\ PositiveArguments
    /\ last.amounts = <<Zero>>

----------------------------------------------------------------------------
(* C25 *)

QuoteApplied == last.instruction.op = "xyk_pool_quote"

\* C25: xyk_pool_quote(a, rA, rB) returns exactly floor(a * rB / rA) for all
\* u32 arguments with a > 0, rA > 0 and rB > 0, the product a * rB not
\* overflowing; it fails with 'insufficient amount' when a = 0 and with
\* 'insufficient liquidity' when a > 0 and a reserve is 0.
C25_QuoteExact ==
    QuoteApplied =>
        LET i == last.instruction
        IN  IF i.amount_a = Zero
            THEN last.tag = "Err" /\ last.e = "insufficient amount"
            ELSE IF i.reserve_a = Zero \/ i.reserve_b = Zero
            THEN last.tag = "Err" /\ last.e = "insufficient liquidity"
            ELSE /\ last.tag = "Ok"
                 /\ IsQuotient(last.amounts[1], Mul(i.amount_a, i.reserve_b), i.reserve_a)

----------------------------------------------------------------------------
(* C26 *)

OptimalDepositApplied == last.instruction.op = "xyk_pool_get_optimal_deposit_amounts"

\* the two quotes of the applied xyk_pool_get_optimal_deposit_amounts
QuotedB ==
    xyk_pool_quote(last.instruction.amount_a_desired, last.instruction.reserve_a,
                   last.instruction.reserve_b)

QuotedA ==
    xyk_pool_quote(last.instruction.amount_b_desired, last.instruction.reserve_b,
                   last.instruction.reserve_a)

SecondBranch ==
    /\ OptimalDepositApplied
    /\ ~(last.instruction.reserve_a = Zero /\ last.instruction.reserve_b = Zero)
    /\ QuotedB.tag = "Ok"
    /\ Less(last.instruction.amount_b_desired, QuotedB.v)
    /\ QuotedA.tag = "Ok"

FirstBranch ==
    /\ OptimalDepositApplied
    /\ ~(last.instruction.reserve_a = Zero /\ last.instruction.reserve_b = Zero)
    /\ QuotedB.tag = "Ok"
    /\ Leq(QuotedB.v, last.instruction.amount_b_desired)

\* C26: with non-empty reserves, when bOpt = quote(aD, rA, rB) > bD and
\* aOpt = quote(bD, rB, rA) is defined, aOpt <= aD, so the assertion
\* amount_a_optimal <= amount_a_desired never fails, and the function returns
\* (aOpt, bD) if aOpt >= aMin and 'insufficient a amount' otherwise; when
\* bOpt <= bD it returns (aD, bOpt) if bOpt >= bMin and 'insufficient b
\* amount' otherwise.
C26_OptimalDepositTotal ==
    /\ OptimalDepositApplied =>
           last.e # "assertion failed: amount_a_optimal <= amount_a_desired"
    /\ SecondBranch =>
           /\ Leq(QuotedA.v, last.instruction.amount_a_desired)
           /\ IF Leq(last.instruction.amount_a_min, QuotedA.v)
              THEN /\ last.tag = "Ok"
                   /\ last.amounts = <<QuotedA.v, last.instruction.amount_b_desired>>
              ELSE last.tag = "Err" /\ last.e = "insufficient a amount"
    /\ FirstBranch =>
           IF Leq(last.instruction.amount_b_min, QuotedB.v)
           THEN /\ last.tag = "Ok"
                /\ last.amounts = <<last.instruction.amount_a_desired, QuotedB.v>>
           ELSE last.tag = "Err" /\ last.e = "insufficient b amount"

\* (5000, 2000) desired against reserves (10000, 5000): 2500 > 2000 is quoted
\* for b, so (4000, 2000) is returned
C26_Witness ==
    /\ SecondBranch
    /\ last.instruction.reserve_a = N(10000)
    /\ last.instruction.reserve_b = N(5000)
    /\ last.tag = "Ok"
    /\ last.amounts = <<N(4000), N(2000)>>

\* a second branch taken on a wrapped product: the u32 product behind bOpt
\* does not fit
C26_WitnessWrapped ==
    /\ SecondBranch
    /\ ~Fits32(Mul(last.instruction.amount_a_desired, last.instruction.reserve_b))

----------------------------------------------------------------------------
(* C27 *)

\* the pool tokens minted to the provider by the last instruction
MintedL ==
    Gained(last.authority,
           PoolData(last.instruction.liquidity_source_id, pre).pool_token_asset_definition_id)

\* the provider of the last deposit removes exactly the minted liquidity,
\* with no minimum, right after the deposit
RemovedAtOnce ==
    execute(RemoveLiquidityFromXYKPool(last.instruction.liquidity_source_id, MintedL,
                                       Zero, Zero),
            last.authority, wsv)

Within1(x, y) == Leq(x, Add(y, One)) /\ Leq(y, Add(x, One))

\* C27 as stated: adding liquidity (a, b) and immediately removing exactly
\* the minted L returns (a', b') with a' <= a and b' <= b, and leaves each
\* reserve within 1 unit of its value before the add.
C27_AddThenRemove ==
    SuccessfulDeposit =>
        \A id \in {last.instruction.liquidity_source_id}, r \in {RemovedAtOnce} :
        \A base \in {id.token_pair_id.base_asset_id},
           target \in {id.token_pair_id.target_asset_id} :
            /\ r.tag = "Ok"
            /\ Leq(Balance(r.w, last.authority, base), Balance(pre, last.authority, base))
            /\ Leq(Balance(r.w, last.authority, target), Balance(pre, last.authority, target))
            /\ Within1(PoolData(id, r.w).base_asset_reserve, PoolData(id, pre).base_asset_reserve)
            /\ Within1(PoolData(id, r.w).target_asset_reserve,
                       PoolData(id, pre).target_asset_reserve)

\* C27, amended: adding liquidity (a, b) to a pool whose cached reserves
\* equal its storage balances and immediately removing exactly the minted L,
\* when the removal succeeds, returns (a', b') with a' <= a and b' <= b and
\* leaves each reserve at or above its value before the add; what stays in
\* the pool is not bounded by 1 unit.
C27_AddThenRemoveKeeps ==
    (SuccessfulDeposit /\ Mirrors(last.instruction.liquidity_source_id, pre)) =>
        \A id \in {last.instruction.liquidity_source_id}, r \in {RemovedAtOnce} :
        \A base \in {id.token_pair_id.base_asset_id},
           target \in {id.token_pair_id.target_asset_id} :
            r.tag = "Ok" =>
                /\ Leq(Balance(r.w, last.authority, base), Balance(pre, last.authority, base))
                /\ Leq(Balance(r.w, last.authority, target),
                       Balance(pre, last.authority, target))
                /\ Leq(PoolData(id, pre).base_asset_reserve,
                       PoolData(id, r.w).base_asset_reserve)
                /\ Leq(PoolData(id, pre).target_asset_reserve,
                       PoolData(id, r.w).target_asset_reserve)

\* a deposit into a pool that has liquidity, after which the removal of the
\* minted liquidity leaves a reserve 2 units above its value before
C27_Witness ==
    /\ SuccessfulDeposit
    /\ Mirrors(last.instruction.liquidity_source_id, pre)
    /\ PoolData(last.instruction.liquidity_source_id, pre).pool_token_total_supply # Zero
    /\ RemovedAtOnce.tag = "Ok"
    /\ PoolData(last.instruction.liquidity_source_id, RemovedAtOnce.w).target_asset_reserve =
           Add(PoolData(last.instruction.liquidity_source_id, pre).target_asset_reserve, N(2))

----------------------------------------------------------------------------
(* C28 *)

SuccessfulRemoval == last.instruction.op = "RemoveLiquidityFromXYKPool" /\ last.tag = "Ok"

\* C28 as stated: a successful AddLiquidityToXYKPool never leaves either
\* cached reserve smaller than it was before the instruction, and a successful
\* RemoveLiquidityFromXYKPool never leaves either cached reserve larger than
\* it was before the instruction.
C28_NoFreeMint ==
    /\ SuccessfulDeposit =>
           \A old \in {PoolData(last.instruction.liquidity_source_id, pre)},
              new \in {PoolData(last.instruction.liquidity_source_id, wsv)} :
               /\ Leq(old.base_asset_reserve, new.base_asset_reserve)
               /\ Leq(old.target_asset_reserve, new.target_asset_reserve)
    /\ SuccessfulRemoval =>
           \A old \in {PoolData(last.instruction.liquidity_source_id, pre)},
              new \in {PoolData(last.instruction.liquidity_source_id, wsv)} :
               /\ Leq(new.base_asset_reserve, old.base_asset_reserve)
               /\ Leq(new.target_asset_reserve, old.target_asset_reserve)

\* C28, amended: a successful AddLiquidityToXYKPool never leaves either
\* cached reserve smaller, and a successful RemoveLiquidityFromXYKPool never
\* leaves either cached reserve larger, than the balance the storage account
\* held of that asset before the instruction.
C28_NoFreeMintOfBalances ==
    (SuccessfulDeposit \/ SuccessfulRemoval) =>
        \A id \in {last.instruction.liquidity_source_id} :
        \A old \in {PoolData(id, pre)}, new \in {PoolData(id, wsv)} :
        \A balance_a \in {Balance(pre, old.storage_account_id, id.token_pair_id.base_asset_id)},
           balance_b \in {Balance(pre, old.storage_account_id, id.token_pair_id.target_asset_id)} :
            /\ SuccessfulDeposit =>
                   /\ Leq(balance_a, new.base_asset_reserve)
                   /\ Leq(balance_b, new.target_asset_reserve)
            /\ SuccessfulRemoval =>
                   /\ Leq(new.base_asset_reserve, balance_a)
                   /\ Leq(new.target_asset_reserve, balance_b)

\* a removal out of a supply of 5916 pool tokens after XOR were sent to the
\* storage account: the cached base reserve grows with the removal
C28_Witness ==
    /\ SuccessfulRemoval
    /\ PoolData(last.instruction.liquidity_source_id, pre).pool_token_total_supply = N(5916)
    /\ Less(PoolData(last.instruction.liquidity_source_id, pre).base_asset_reserve,
            PoolData(last.instruction.liquidity_source_id, wsv).base_asset_reserve)
    /\ Less(Zero, Spent(PoolData(last.instruction.liquidity_source_id, pre).storage_account_id,
                        last.instruction.liquidity_source_id.token_pair_id.target_asset_id))

----------------------------------------------------------------------------
(* C29 *)

RemoveTokenPairSubmitted == last.instruction.op = "RemoveTokenPair"

\* the count GetTokenPairCount reports for the DEX of the last instruction
CountBefore == GetTokenPairCount(last.instruction.dex_id, pre)

CountAfter == GetTokenPairCount(last.instruction.dex_id, wsv)

\* the DEX of the last RemoveTokenPair is initialized and does not hold the
\* pair
PairAbsent ==
    /\ RemoveTokenPairSubmitted
    /\ pre.dex[last.instruction.token_pair_id.dex_id.domain_name] # None
    /\ last.instruction.token_pair_id \notin
           DOMAIN TokenPairs(last.instruction.token_pair_id.dex_id.domain_name, pre)

CountSteps ==
    /\ (InitializeDEXSubmitted /\ last.tag = "Ok") =>
           \A count \in {GetTokenPairCount(DEXId(last.instruction.domain_name), wsv)} :
               count.tag = "Ok" /\ count.v = 0
    /\ (CreateTokenPairSubmitted /\ last.tag = "Ok") =>
           /\ CountBefore.tag = "Ok" /\ CountAfter.tag = "Ok"
           /\ CountAfter.v = CountBefore.v + 1
    /\ (RemoveTokenPairSubmitted /\ last.tag = "Ok") =>
           /\ CountBefore.tag = "Ok" /\ CountAfter.tag = "Ok"
           /\ CountAfter.v = CountBefore.v - 1

\* C29 as stated: GetTokenPairCount(dex) is 0 after InitializeDEX, grows by 1
\* on each successful CreateTokenPair, shrinks by 1 on each successful
\* RemoveTokenPair, and RemoveTokenPair of a pair that is not present fails
\* with 'token pair does not exist' leaving the count unchanged.
C29_TokenPairCount ==
    /\ CountSteps
    /\ PairAbsent =>
           /\ last.tag = "Err" /\ last.e = "token pair does not exist"
           /\ CountAfter = CountBefore

\* C29, amended: GetTokenPairCount(dex) is 0 after InitializeDEX, grows by 1
\* on each successful CreateTokenPair and shrinks by 1 on each successful
\* RemoveTokenPair; RemoveTokenPair of a pair that is not present fails and
\* leaves the count unchanged, with 'token pair does not exist' when the
\* authority may manage the DEX (the permission is checked first).
C29_TokenPairCountOfManager ==
    /\ CountSteps
    /\ PairAbsent =>
           /\ last.tag = "Err"
           /\ CountAfter = CountBefore
           /\ HasPermission(last.authority,
                  ManageDEX(last.instruction.token_pair_id.dex_id.domain_name), pre) =>
                  last.e = "token pair does not exist"

\* the DEX owner removes a pair that the DEX does not hold
C29_Witness ==
    /\ PairAbsent
    /\ last.e = "token pair does not exist"
    /\ CountAfter.tag = "Ok"

\* a pair is removed and the count shrinks to 1
C29_WitnessRemoved ==
    /\ RemoveTokenPairSubmitted
    /\ last.tag = "Ok"
    /\ CountAfter.v = 1

----------------------------------------------------------------------------
(* C30 *)

\* the last instruction is a swap over one pool that got as far as the
\* constant-product check of xyk_pool_swap
CheckedSwap ==
    /\ last.instruction.op \in SwapInstructions
    /\ Len(last.instruction.path) = 2
    /\ last.tag = "Ok" \/ last.e = "k error"

BaseIsInput == last.instruction.path[1] = SwappedPool.token_pair_id.base_asset_id

\* balances of the storage account at the check: nothing moves after it
BaseBalance ==
    Balance(wsv, PoolData(SwappedPool, pre).storage_account_id,
            SwappedPool.token_pair_id.base_asset_id)

TargetBalance ==
    Balance(wsv, PoolData(SwappedPool, pre).storage_account_id,
            SwappedPool.token_pair_id.target_asset_id)

\* what the pool received of each asset: the balance above the reserve less
\* the amount paid out
BaseInput ==
    LET left == Sub(PoolData(SwappedPool, pre).base_asset_reserve,
                    IF BaseIsInput THEN Zero ELSE last.amounts[2])
    IN  IF Less(left, BaseBalance) THEN Sub(BaseBalance, left) ELSE Zero

TargetInput ==
    LET left == Sub(PoolData(SwappedPool, pre).target_asset_reserve,
                    IF BaseIsInput THEN last.amounts[2] ELSE Zero)
    IN  IF Less(left, TargetBalance) THEN Sub(TargetBalance, left) ELSE Zero

\* (balance_a * 1000 - in_a * 3) * (balance_b * 1000 - in_b * 3) is below
\* reserve_a * reserve_b * 1000^2; a negative factor counts as below
BelowK(balance_a, in_a, balance_b, in_b) ==
    \/ Less(MulSmall(balance_a, 1000), MulSmall(in_a, 3))
    \/ Less(MulSmall(balance_b, 1000), MulSmall(in_b, 3))
    \/ Less(Mul(Sub(MulSmall(balance_a, 1000), MulSmall(in_a, 3)),
                Sub(MulSmall(balance_b, 1000), MulSmall(in_b, 3))),
            MulSmall(MulSmall(K(SwappedPool, pre), 1000), 1000))

\* C30 as stated: in the constant-product check of a single-pool swap both
\* adjusted balances are computed from the base input,
\* Ba' = Ba * 1000 - aInBase * 3 and Bb' = Bb * 1000 - aInBase * 3, and the
\* swap fails with the k error iff Ba' * Bb' < rA * rB * 1000^2.
C30_KCheckOfBaseInput ==
    CheckedSwap =>
        (last.e = "k error" <=> BelowK(BaseBalance, BaseInput, TargetBalance, BaseInput))

\* C30, amended: each adjusted balance is computed from the input of its own
\* asset, Ba' = Ba * 1000 - aInBase * 3 and Bb' = Bb * 1000 - aInTarget * 3,
\* and the swap fails with the k error iff Ba' * Bb' < rA * rB * 1000^2.
C30_KCheckOfOwnInput ==
    CheckedSwap =>
        (last.e = "k error" <=> BelowK(BaseBalance, BaseInput, TargetBalance, TargetInput))

\* a swap of the base asset that passes the check of the code and would fail
\* the check on the base input alone
C30_Witness ==
    /\ CheckedSwap
    /\ last.tag = "Ok"
    /\ BaseIsInput
    /\ BelowK(BaseBalance, BaseInput, TargetBalance, BaseInput)

\* a swap that fails the check
C30_WitnessKError ==
    /\ CheckedSwap
    /\ last.e = "k error"

----------------------------------------------------------------------------
(* C31 *)

SuccessfulProvision == SuccessfulDeposit \/ SuccessfulRemoval

\* C31: in every reachable state a pool's k_last is zero iff its fee_to is
\* None or the pool has never had liquidity added (its total supply is 0);
\* a pool created through create_xyk_pool keeps k_last = 0, and a pool with
\* fee_to set has k_last equal to the product of its reserves after each
\* successful add or remove.
C31_KLast ==
    \A id \in Pools(wsv) :
    \A data \in {PoolData(id, wsv)} :
        /\ data.k_last = Zero <=>
               (data.fee_to = None \/ data.pool_token_total_supply = Zero)
        /\ data.fee_to = None => data.k_last = Zero
        /\ (/\ SuccessfulProvision
            /\ id = last.instruction.liquidity_source_id
            /\ data.fee_to # None) =>
               data.k_last = Mul(data.base_asset_reserve, data.target_asset_reserve)

----------------------------------------------------------------------------
(* C32 *)

\* C32: once a pool has had its first successful mint its
\* pool_token_total_supply is at least MINIMUM_LIQUIDITY in every later
\* state, under any sequence of add-liquidity, remove-liquidity and swap
\* instructions; the total supply is 0 iff no liquidity was ever added: it
\* leaves 0 only by a successful AddLiquidityToXYKPool on the pool and never
\* returns to 0 or below MINIMUM_LIQUIDITY.
C32_SupplyFloor ==
    \A id \in Pools(wsv) :
    \A old \in {PoolData(id, pre).pool_token_total_supply},
       new \in {PoolData(id, wsv).pool_token_total_supply} :
        /\ new = Zero \/ Leq(MINIMUM_LIQUIDITY, new)
        /\ old # Zero => new # Zero
        /\ (old = Zero /\ new # Zero) =>
               SuccessfulDeposit /\ last.instruction.liquidity_source_id = id

----------------------------------------------------------------------------
(* C33 *)

\* the pool of the last instruction, a deposit or a removal that got as far
\* as xyk_pool_mint_pool_token_fee and did not fail
Accrual ==
    /\ SuccessfulProvision
    /\ last.instruction.liquidity_source_id \in Pools(pre)

\* the pool tokens the fee_to account of the pool received
FeeMinted ==
    Gained(PoolData(last.instruction.liquidity_source_id, pre).fee_to[1],
           PoolData(last.instruction.liquidity_source_id, pre).pool_token_asset_definition_id)

\* what the provider of the last instruction gained (a deposit) or gave up
\* (a removal) in pool tokens
ProviderMinted ==
    Gained(last.authority,
           PoolData(last.instruction.liquidity_source_id, pre).pool_token_asset_definition_id)

\* floor(sqrt(n)) for n < 2^40, in unbounded arithmetic
WideRoot(n) ==
    Let(n, LAMBDA x :
    Let(IsqrtBits(x, 0, 16), LAMBDA p4 :
    Let(IsqrtBits(x, p4, 12), LAMBDA p3 :
    Let(IsqrtBits(x, p3, 8), LAMBDA p2 :
    Let(IsqrtBits(x, p2, 4), LAMBDA p1 : N(IsqrtBits(x, p1, 0)))))))

\* T * (rootK - rootK_last) / (5 * rootK + rootK_last) if rootK > rootK_last,
\* else 0, for the pool data as the accrual finds it
ExpectedFee(data) ==
    Let2(WideRoot(Mul(data.base_asset_reserve, data.target_asset_reserve)),
         integer_sqrt(data.k_last), LAMBDA rootK, rootKLast :
        IF Less(rootKLast, rootK)
        THEN Div(Mul(data.pool_token_total_supply, Sub(rootK, rootKLast)),
                 Add(MulSmall(rootK, 5), rootKLast))
        ELSE Zero)

FeeOnAccrual ==
    /\ Accrual
    /\ PoolData(last.instruction.liquidity_source_id, pre).fee_to # None
    /\ PoolData(last.instruction.liquidity_source_id, pre).k_last # Zero

\* C33: when the accrual runs with fee_to = Some(x) and k_last # 0 it mints
\* exactly T * (rootK - rootK_last) / (5 * rootK + rootK_last) pool tokens to
\* x, raising the total supply by the same amount, if rootK > rootK_last and
\* that quantity is positive, and mints nothing otherwise (rootK the integer
\* square root of the product of the cached reserves, rootK_last that of
\* k_last); with fee_to = None and k_last # 0 it only resets k_last to 0.
C33_ProtocolFee ==
    /\ FeeOnAccrual =>
           \A old \in {PoolData(last.instruction.liquidity_source_id, pre)},
              new \in {PoolData(last.instruction.liquidity_source_id, wsv)} :
           \A fee \in {ExpectedFee(old)} :
               /\ FeeMinted = fee
               /\ IF SuccessfulDeposit
                  THEN new.pool_token_total_supply =
                           Add(Add(old.pool_token_total_supply, fee), ProviderMinted)
                  ELSE Add(new.pool_token_total_supply, last.instruction.liquidity) =
                           Add(old.pool_token_total_supply, fee)
    /\ \A id \in Pools(wsv) :
       \A data \in {[PoolData(id, wsv) EXCEPT !.fee_to = None]} :
           data.k_last # Zero =>
               xyk_pool_mint_pool_token_fee(wsv, data) =
                   ROk(wsv, [data EXCEPT !.k_last = Zero])

\* the reserves grew by a swap since k_last was taken, and the DEX owner is
\* paid pool tokens
C33_Witness ==
    /\ FeeOnAccrual
    /\ FeeMinted # Zero

----------------------------------------------------------------------------
(* C34 *)

\* (fee, protocol_fee_part) settings of a pool, in basis points
FeeSettings == {<<0, 0>>, <<30, 5000>>, <<MAX_BASIS_POINTS, MAX_BASIS_POINTS>>}

\* the world w with the fee and the protocol fee part of pool id set to s
WithFee(id, s, w) ==
    [w EXCEPT !.dex[id.token_pair_id.dex_id.domain_name][1]
                  .token_pairs[id.token_pair_id].liquidity_sources[id].data[2]
                      = [@ EXCEPT !.fee = s[1], !.protocol_fee_part = s[2]]]

PoolInstructionSubmitted == last.instruction.op \in PoolInstructions

----------------------------------------------------------------------------
(* C35 *)

\* the pools of the token pairs the DEX held at genesis and holds no more
RemovedPools(w) ==
    {id \in {PoolDOT, PoolKSM} :
         id.token_pair_id \notin DOMAIN TokenPairs(id.token_pair_id.dex_id.domain_name, w)}

\* the last instruction is a pool instruction working on a removed pool
OnRemovedPool ==
    /\ PoolInstructionSubmitted
    /\ last.instruction.op \in SwapInstructions =>
           pre.dex[last.instruction.dex_id.domain_name] # None
    /\ Operated(last.instruction, pre) \cap RemovedPools(pre) # {}

NotFound == {"token pair not found", "liquidity source not found"}

\* C35: a successful RemoveTokenPair leaves every balance of the ledger, those
\* of the storage accounts and the pool-token balances included, as it was;
\* afterwards every pool instruction and every pool query on the liquidity
\* source of the removed pair fails with a not-found error.
C35_RemovedPairFrame ==
    /\ (RemoveTokenPairSubmitted /\ last.tag = "Ok") =>
           /\ wsv.assets = pre.assets
           /\ LiquiditySourceId(last.instruction.token_pair_id, "XYKPool")
                  \in RemovedPools(wsv)
    /\ OnRemovedPool => last.tag = "Err" /\ last.e \in NotFound /\ wsv = pre
    /\ \A id \in RemovedPools(wsv) :
       \A r \in {GetXYKPoolInfo(id, wsv)} : r.tag = "Err" /\ r.e \in NotFound

C35_Witness ==
    /\ OnRemovedPool
    /\ PoolDOT \in RemovedPools(wsv)
    /\ Balance(wsv, StorageAccountId(PairDOT), XOR) = N(6000)
    /\ Balance(wsv, UserA, PoolTokenId(PairDOT)) # Zero

----------------------------------------------------------------------------
(* C36 *)

\* the assets traded on the DEX: every asset definition of the ledger that is
\* not the pool token of a pool
Underlying == {XOR, DOT, KSM}

\* C36: for every asset that is not a pool token the sum of the balances over
\* all accounts is unchanged by every pool instruction (add, remove, swap over
\* one or several pools), successful or failing: no transfer inside an
\* instruction debits its source without crediting its destination.
C36_AssetsConserved ==
    PoolInstructionSubmitted =>
        \A asset \in Underlying : Circulating(asset, wsv) = Circulating(asset, pre)

C36_Witness ==
    /\ PoolInstructionSubmitted
    /\ last.tag = "Err"
    /\ wsv.assets # pre.assets

----------------------------------------------------------------------------
(* C37 *)

\* the reserve of pool id that holds the asset, in w
ReserveOf(id, asset, w) ==
    IF asset = id.token_pair_id.base_asset_id
    THEN PoolData(id, w).base_asset_reserve
    ELSE PoolData(id, w).target_asset_reserve

\* the last instruction is a swap whose quote succeeded with positive amounts
\* only, along a path that visits each pool at most once, on pools whose
\* cached reserves equal the storage balances, that meets its bound on the
\* quoted amount and whose payment into the first pool succeeds
QuotedSwap ==
    /\ last.instruction.op \in SwapInstructions
    /\ last.amounts # <<>>
    /\ \A k \in DOMAIN last.amounts : last.amounts[k] # Zero
    /\ Cardinality(Operated(last.instruction, pre)) = Len(last.instruction.path) - 1
    /\ \A id \in Operated(last.instruction, pre) : id \in Pools(pre) /\ Mirrors(id, pre)
    /\ IF last.instruction.op = "SwapExactTokensForTokensOnXYKPool"
       THEN Leq(last.instruction.amount_out_min, last.amounts[Len(last.amounts)])
       ELSE Leq(last.amounts[1], last.instruction.amount_in_max)
    /\ transfer_from(last.instruction.path[1], last.authority,
                     PoolData(HopPool(last.instruction.dex_id, last.instruction.path[1],
                                      last.instruction.path[2], pre), pre).storage_account_id,
                     last.amounts[1], last.authority, pre).tag = "Ok"

\* C37: such a swap succeeds on every hop, and the reserves of the pool of hop
\* k change by exactly +amounts[k] on the input side and -amounts[k + 1] on
\* the output side.
C37_QuoteExecutable ==
    QuotedSwap =>
        /\ last.tag = "Ok"
        /\ \A k \in 1..(Len(last.instruction.path) - 1) :
           \A id \in {HopPool(last.instruction.dex_id, last.instruction.path[k],
                              last.instruction.path[k + 1], pre)} :
               /\ ReserveOf(id, last.instruction.path[k], wsv)
                      = Add(ReserveOf(id, last.instruction.path[k], pre), last.amounts[k])
               /\ Add(ReserveOf(id, last.instruction.path[k + 1], wsv), last.amounts[k + 1])
                      = ReserveOf(id, last.instruction.path[k + 1], pre)

C37_Witness ==
    /\ QuotedSwap
    /\ Len(last.instruction.path) = 3
    /\ last.tag = "Ok"

----------------------------------------------------------------------------
(* C38 *)

\* a successful AddLiquidityToXYKPool to a pool that had liquidity, or a
\* successful RemoveLiquidityFromXYKPool, on a pool without a fee_to account
Reprovision ==
    /\ SuccessfulProvision
    /\ last.instruction.liquidity_source_id \in Pools(pre)
    /\ PoolData(last.instruction.liquidity_source_id, pre).fee_to = None
    /\ SuccessfulDeposit =>
           PoolData(last.instruction.liquidity_source_id, pre).pool_token_total_supply # Zero

\* C38: with fee_to = None, after a successful AddLiquidityToXYKPool that is
\* not the first and after a successful RemoveLiquidityFromXYKPool, for each
\* of the two assets reserve_after * supply_before >= reserve_before *
\* supply_after: the reserves behind one pool token never shrink.
C38_NoDilution ==
    Reprovision =>
        \A old \in {PoolData(last.instruction.liquidity_source_id, pre)},
           new \in {PoolData(last.instruction.liquidity_source_id, wsv)} :
            /\ Leq(Mul(old.base_asset_reserve, new.pool_token_total_supply),
                   Mul(new.base_asset_reserve, old.pool_token_total_supply))
            /\ Leq(Mul(old.target_asset_reserve, new.pool_token_total_supply),
                   Mul(new.target_asset_reserve, old.pool_token_total_supply))

C38_Witness ==
    /\ Reprovision
    /\ SuccessfulDeposit
    /\ PoolData(last.instruction.liquidity_source_id, pre).pool_token_total_supply = N(5916)

C38_WitnessRemoval ==
    /\ Reprovision
    /\ SuccessfulRemoval
    /\ PoolData(last.instruction.liquidity_source_id, wsv).pool_token_total_supply = N(1000)

----------------------------------------------------------------------------
(* C39 *)

\* the pool of the last hop of the path of the last instruction
LastHopPool ==
    HopPool(last.instruction.dex_id,
            last.instruction.path[Len(last.instruction.path) - 1],
            last.instruction.path[Len(last.instruction.path)], pre)

\* the last instruction is a SwapTokensForExactTokensOnXYKPool that asks the
\* pool of its last hop for at least the whole reserve of the output asset
Overdrawn ==
    /\ last.instruction.op = "SwapTokensForExactTokensOnXYKPool"
    /\ Len(last.instruction.path) >= 2
    /\ pre.dex[last.instruction.dex_id.domain_name] # None
    /\ LastHopPool \in Pools(pre)
    /\ Leq(ReserveOf(LastHopPool, LastAsset, pre), last.instruction.amount_out)

\* C39: a SwapTokensForExactTokensOnXYKPool that asks a hop for an output of
\* at least that hop's output reserve returns an error, produces no quoted
\* input amount and changes no balance.
C39_OverdrawIsError ==
    Overdrawn =>
        /\ last.tag = "Err"
        /\ last.amounts = <<>>
        /\ wsv.assets = pre.assets

----------------------------------------------------------------------------
(* C40 *)

\* the DEXes stored in w, with the domain that holds each
StoredDEXes(w) == {<<d, w.dex[d][1]>> : d \in {n \in DOMAIN w.dex : w.dex[n] # None}}

\* the token pair stored under key t of dex is consistent with dex, and so are
\* its liquidity sources
PairContained(dex, t, w) ==
    \A pair \in {dex.token_pairs[t]} :
        /\ pair.id.dex_id = dex.id
        /\ get_token_pair(pair.id, w) = ROk(w, pair)
        /\ \A l \in DOMAIN pair.liquidity_sources :
           \A source \in {pair.liquidity_sources[l]} :
               /\ source.id.token_pair_id = pair.id
               /\ source.data[1] = source.id.liquidity_source_type
               /\ get_liquidity_source(source.id, w) = ROk(w, source)

\* C40: a DEX stored in domain d has id.domain_name = d; every token pair of
\* a DEX has id.dex_id equal to the id of the DEX; every liquidity source of a
\* pair has id.token_pair_id equal to the id of the pair and data of the kind
\* its id names; every stored entity is the one the accessor returns for its
\* own id.
C40_Containment ==
    \A s \in StoredDEXes(wsv) :
        /\ s[2].id.domain_name = s[1]
        /\ get_dex(s[2].id.domain_name, wsv) = ROk(wsv, s[2])
        /\ \A t \in DOMAIN s[2].token_pairs : PairContained(s[2], t, wsv)

C40_Witness ==
    /\ Pools(wsv) = {PoolDOT, PoolKSM}
    /\ last.instruction.op = "CreateLiquiditySource"
    /\ last.tag = "Ok"

====
